---------------------------- MODULE Spec2Model ----------------------------
(***************************************************************************)
(* Model of tm-sync's scan pipeline: the change detector (content          *)
(* fingerprint), the documentation validator, the sync-status classifier   *)
(* and the scanner that aggregates them per file and per directory.        *)
(*                                                                         *)
(* Strings are sequences of one-character strings, so that trimming,       *)
(* joining and pattern matching are computed, not assumed.  A value that   *)
(* is `undefined' or `null' in the program is the one-element sequence     *)
(* Undefined / Null, which no string equals (its element is not a single   *)
(* character).                                                             *)
(***************************************************************************)
EXTENDS Integers, Sequences, FiniteSets, TLC

VARIABLES
    config,       \* Scanner.validator's ValidationConfig (set by the constructor)
    hashPc,       \* position of the calculateHash driver
    hashTestA,    \* first ParsedTest handed to calculateHash
    hashTestB,    \* second ParsedTest handed to calculateHash
    fpA,          \* calculateHash(hashTestA)
    fpB,          \* calculateHash(hashTestB)
    dsCall,       \* last detectSyncStatus call: arguments and returned status
    scanned,      \* last scanFile call: the file and what the call produced
    files,        \* scanDirectory: the enumerated files (fastGlob's result)
    nextFile,     \* scanAllFiles: index of the next file of the for-loop
    fileResults,  \* scanAllFiles: the fileResults array
    scanResult,   \* scanDirectory: the returned ScanResult (once done)
    pc,           \* scanDirectory: "scanning" | "done"
    vCall,        \* last Validator.validate call: arguments and result
    tcm,          \* the TestCaseMapping that updateSyncStatus is applied to
    updates,      \* the updateSyncStatus calls made on it so far, in call order
    rt,           \* retry: the frame of the call (options, locals, position)
    invocations,  \* retry: the operation() calls made, one entry per attempt
    lmCall,       \* last MappingManager.loadMapping call: the document and the outcome
    tasks,        \* scanFile calls in flight on one Scanner, one entry per file
    store,        \* the file system under saveMapping: the file and the writer
    batch         \* retryBatch: the call's items, their retries and the result

\* The variables of the scan pipeline.
scanVars == <<config, hashPc, hashTestA, hashTestB, fpA, fpB, dsCall, scanned,
              files, nextFile, fileResults, scanResult, pc>>

\* The variables of the calls that read and write mapping files and of
\* retryBatch.
ioVars == <<lmCall, tasks, store, batch>>

\* The variables of the utilities outside the scan pipeline.
utilVars == <<vCall, tcm, updates, rt, invocations, ioVars>>

vars == <<config, hashPc, hashTestA, hashTestB, fpA, fpB, dsCall, scanned,
          files, nextFile, fileResults, scanResult, pc, utilVars>>

-----------------------------------------------------------------------------
(* Bounds of the model. *)

MaxSteps == 2      \* steps in one actionSteps / verificationSteps list
MaxLine == 2       \* largest source line number of a step
MaxTests == 2      \* test declarations in one source file
MaxMappings == 2   \* records in one mapping document
MaxFiles == 2      \* files enumerated by one scanDirectory
MaxUpdates == 3    \* updateSyncStatus calls applied to one mapping
MaxAttempts == 3   \* largest opts.maxAttempts of a retry call
MaxDelay == 2      \* opts.maxDelay of a retry call, in milliseconds
MaxItems == 2      \* items of a retryBatch call

-----------------------------------------------------------------------------
(* Strings. *)

Undefined == <<"undefined">>
Null == <<"null">>

WhiteSpace == {" ", "\t", "\n"}
Digit == {"0", "1", "2", "3", "4", "5", "6", "7", "8", "9"}
UpperCase == {"A", "B", "C", "D", "E", "F", "G", "H", "I", "J", "K", "L", "M",
              "N", "O", "P", "Q", "R", "S", "T", "U", "V", "W", "X", "Y", "Z"}

\* JavaScript truthiness of an optional string: undefined and "" are falsy.
Truthy(s) == s # Undefined /\ s # Null /\ s # <<>>

RECURSIVE TrimStart(_)
TrimStart(s) ==
    IF s # <<>> /\ Head(s) \in WhiteSpace THEN TrimStart(Tail(s)) ELSE s

RECURSIVE TrimEnd(_)
TrimEnd(s) ==
    IF s # <<>> /\ s[Len(s)] \in WhiteSpace
        THEN TrimEnd(SubSeq(s, 1, Len(s) - 1))
        ELSE s

\* A mutant of Trim: also collapses every interior run of whitespace.
RECURSIVE CollapseSpaces(_)
CollapseSpaces(s) ==
    IF Len(s) < 2 THEN s
    ELSE IF s[1] \in WhiteSpace /\ s[2] \in WhiteSpace
        THEN CollapseSpaces(Tail(s))
        ELSE <<s[1]>> \o CollapseSpaces(Tail(s))

TrimCollapsing(s) == CollapseSpaces(TrimEnd(TrimStart(s)))

\* String.prototype.trim
Trim(s) == TrimEnd(TrimStart(s))

\* Array.prototype.join
RECURSIVE Join(_, _)
Join(parts, sep) ==
    IF parts = <<>> THEN <<>>
    ELSE IF Len(parts) = 1 THEN parts[1]
    ELSE parts[1] \o sep \o Join(Tail(parts), sep)

IsPrefix(p, s) == Len(p) <= Len(s) /\ SubSeq(s, 1, Len(p)) = p

\* Length of the longest run of characters of class cls that starts at s[from].
RECURSIVE RunLength(_, _, _)
RunLength(s, from, cls) ==
    IF from <= Len(s) /\ s[from] \in cls THEN 1 + RunLength(s, from + 1, cls) ELSE 0

SeqMap(Op(_), s) == [i \in 1..Len(s) |-> Op(s[i])]

-----------------------------------------------------------------------------
(* ParsedTest values. *)

\* jsdocTags.precondition is undefined, one string or an array of strings.
NoPrecondition == [kind |-> "undefined", items |-> <<>>]
PreconditionString(s) == [kind |-> "string", items |-> <<s>>]
PreconditionArray(a) == [kind |-> "array", items |-> a]

JSDocTags(objective, precondition, knownIssue, playwrightTags) ==
    [objective |-> objective, precondition |-> precondition,
     knownIssue |-> knownIssue, playwrightTags |-> playwrightTags]

TestStep(text, line) == [text |-> text, lineNumber |-> line]

ParsedTest(title, testCaseId, type, jsdocTags, actionSteps, verificationSteps, line) ==
    [title |-> title, testCaseId |-> testCaseId, type |-> type,
     jsdocTags |-> jsdocTags, actionSteps |-> actionSteps,
     verificationSteps |-> verificationSteps, lineNumber |-> line]

-----------------------------------------------------------------------------
(* ChangeDetector. *)

L_objective == <<"o", "b", "j", "e", "c", "t", "i", "v", "e", ":">>
L_precondition == <<"p", "r", "e", "c", "o", "n", "d", "i", "t", "i", "o", "n", ":">>
L_actions == <<"a", "c", "t", "i", "o", "n", "s", ":">>
L_verifications ==
    <<"v", "e", "r", "i", "f", "i", "c", "a", "t", "i", "o", "n", "s", ":">>
L_knownIssue == <<"k", "n", "o", "w", "n", "I", "s", "s", "u", "e", ":">>

\* A mutant of SortSteps: the list is hashed in its in-memory order.
SortStepsUnsorted(steps) == steps

\* [...steps].sort((a, b) => a.lineNumber - b.lineNumber): Array.prototype.sort
\* is stable, so steps of equal line keep their in-memory order.
RECURSIVE SortSteps(_)
SortSteps(steps) ==
    IF steps = <<>> THEN <<>>
    ELSE LET least == CHOOSE i \in 1..Len(steps) :
                        /\ \A j \in 1..Len(steps) :
                              steps[i].lineNumber <= steps[j].lineNumber
                        /\ \A j \in 1..(i - 1) :
                              steps[j].lineNumber # steps[i].lineNumber
             rest == [j \in 1..(Len(steps) - 1) |->
                        IF j < least THEN steps[j] ELSE steps[j + 1]]
         IN <<steps[least]>> \o SortSteps(rest)

StepText(step) == Trim(step.text)

\* p.trim() of the preconditions.map
PreconditionText(p) == Trim(p)

\* The `parts' array of calculateHash, before parts.join('\n').
CanonicalParts(test) ==
    LET tags == test.jsdocTags
        objective == IF Truthy(tags.objective)
                        THEN <<L_objective \o Trim(tags.objective)>> ELSE <<>>
        \* a non-empty string or any array (an empty one too) is truthy
        precondition ==
            IF \/ tags.precondition.kind = "array"
               \/ /\ tags.precondition.kind = "string"
                  /\ tags.precondition.items[1] # <<>>
                THEN <<L_precondition
                        \o Join(SeqMap(PreconditionText, tags.precondition.items), <<"|">>)>>
                ELSE <<>>
        actions == IF Len(test.actionSteps) > 0
                      THEN <<L_actions
                              \o Join(SeqMap(StepText, SortSteps(test.actionSteps)), <<"|">>)>>
                      ELSE <<>>
        verifications ==
            IF Len(test.verificationSteps) > 0
                THEN <<L_verifications
                        \o Join(SeqMap(StepText, SortSteps(test.verificationSteps)), <<"|">>)>>
                ELSE <<>>
        knownIssue == IF Truthy(tags.knownIssue)
                         THEN <<L_knownIssue \o Trim(tags.knownIssue)>> ELSE <<>>
    IN objective \o precondition \o actions \o verifications \o knownIssue

\* normalizedContent: the string that is hashed.
NormalizedContent(test) == Join(CanonicalParts(test), <<"\n">>)

\* createHash('sha256').update(s).digest('hex'), idealised as collision-free:
\* the digest of s is s itself under a tag, so two digests are equal exactly
\* when the hashed strings are.
Sha256(s) == <<"sha256">> \o s

\* A mutant of CalculateHash: the title is hashed with the content.
CalculateHashWithTitle(test) == Sha256(test.title \o <<"\n">> \o NormalizedContent(test))

CalculateHash(test) == Sha256(NormalizedContent(test))

-----------------------------------------------------------------------------
(* Validator. *)

TitleMinLength == 10

ValidationConfig(requiredTags, enforceActions, enforceVerifications, projectKey) ==
    [requiredTags |-> requiredTags,
     enforceActionComments |-> enforceActions,
     enforceVerificationComments |-> enforceVerifications,
     projectKey |-> projectKey]

\* DEFAULT_CONFIG.validation
DefaultValidationConfig ==
    ValidationConfig({"@objective"}, TRUE, TRUE, <<"M", "M">>)

ValidationIssue(category, severity, text, arg, line) ==
    [category |-> category, severity |-> severity,
     message |-> [text |-> text, arg |-> arg], lineNumber |-> line]

\* this.config.projectKey || 'MM'
ValidatorProjectKey(cfg) ==
    IF Truthy(cfg.projectKey) THEN cfg.projectKey ELSE <<"M", "M">>

\* new RegExp(`^${projectKey}-T\\d+$`).test(id)
MatchesCaseIdPattern(id, projectKey) ==
    LET head == projectKey \o <<"-", "T">>
        digits == RunLength(id, Len(head) + 1, Digit)
    IN /\ IsPrefix(head, id)
       /\ digits >= 1
       /\ Len(head) + digits = Len(id)

\* test.title.replace(/^[A-Z]+-T\d+:\s*/, '')
TitleWithoutId(title) ==
    LET upper == RunLength(title, 1, UpperCase)
        digits == RunLength(title, upper + 3, Digit)
        colon == upper + 3 + digits
        spaces == RunLength(title, colon + 1, WhiteSpace)
    IN IF /\ upper >= 1
          /\ Len(title) >= colon
          /\ title[upper + 1] = "-"
          /\ title[upper + 2] = "T"
          /\ digits >= 1
          /\ title[colon] = ":"
           THEN SubSeq(title, colon + spaces + 1, Len(title))
           ELSE title

ObjectiveIssues(test, cfg) ==
    IF /\ ("objective" \in cfg.requiredTags \/ "@objective" \in cfg.requiredTags)
       /\ ~Truthy(test.jsdocTags.objective)
        THEN <<ValidationIssue("documentation", "error",
                               "Missing required @objective tag", <<>>, test.lineNumber)>>
        ELSE <<>>

ActionStepIssues(test, cfg) ==
    IF cfg.enforceActionComments /\ Len(test.actionSteps) = 0
        THEN <<ValidationIssue("action-steps", "error",
                               "Missing action step comments (// #)", <<>>, test.lineNumber)>>
        ELSE <<>>

VerificationStepIssues(test, cfg) ==
    IF cfg.enforceVerificationComments /\ Len(test.verificationSteps) = 0
        THEN <<ValidationIssue("verification-steps", "error",
                               "Missing verification step comments (// *)", <<>>,
                               test.lineNumber)>>
        ELSE <<>>

CaseIdIssues(test, cfg) ==
    IF ~Truthy(test.testCaseId)
        THEN <<ValidationIssue("test-case-id", "warning",
                               "Missing test case ID in test title (will be assigned automatically)",
                               <<>>, test.lineNumber)>>
    ELSE IF ~MatchesCaseIdPattern(test.testCaseId, ValidatorProjectKey(cfg))
        THEN <<ValidationIssue("test-case-id", "error",
                               "Invalid test case ID format: ", test.testCaseId,
                               test.lineNumber)>>
    ELSE <<>>

TitleIssues(test, cfg) ==
    IF Len(TitleWithoutId(test.title)) < TitleMinLength
        THEN <<ValidationIssue("test-title", "warning", "Test title is too short",
                               <<>>, test.lineNumber)>>
        ELSE <<>>

\* Validator.validate(test).issues, in the order the rules push them.
ValidateIssues(test, cfg) ==
    ObjectiveIssues(test, cfg) \o ActionStepIssues(test, cfg)
        \o VerificationStepIssues(test, cfg) \o CaseIdIssues(test, cfg)
        \o TitleIssues(test, cfg)

ErrorIssues(issues) == SelectSeq(issues, LAMBDA i : i.severity = "error")

\* A mutant of Validate: an issue of any severity fails the validation.
ValidateStrict(test, cfg) ==
    LET issues == ValidateIssues(test, cfg)
    IN [isValid |-> Len(issues) = 0, issues |-> issues]

\* Validator.validate(test)
Validate(test, cfg) ==
    LET issues == ValidateIssues(test, cfg)
    IN [isValid |-> Len(ErrorIssues(issues)) = 0, issues |-> issues]

\* validationResult.issues.some((issue) => issue.severity === 'error')
HasValidationErrors(validationResult) ==
    \E i \in 1..Len(validationResult.issues) :
        validationResult.issues[i].severity = "error"

-----------------------------------------------------------------------------
(* Scanner.detectSyncStatus. *)

\* The SyncStatus enum.
Synced == "synced"
Unsynced == "unsynced"
NeedsUpdate == "needs-update"
Conflict == "conflict"
Orphaned == "orphaned"
SyncStatus == {Synced, Unsynced, NeedsUpdate, Conflict, Orphaned}

\* A TestCaseMapping record, with the fields the scanner reads; `null' is
\* NullMapping.
TestCaseMapping(testCaseId, syncStatus, lastSyncedHash) ==
    [testCaseId |-> testCaseId, syncStatus |-> syncStatus,
     lastSyncedHash |-> lastSyncedHash]

NullMapping == [null |-> TRUE]

\* A mutant of DetectSyncStatus: the mapping check comes before validation.
DetectSyncStatusMappingFirst(test, mapping, currentHash, cfg) ==
    IF ~Truthy(test.testCaseId) \/ mapping = NullMapping THEN Unsynced
    ELSE IF mapping.lastSyncedHash # currentHash THEN NeedsUpdate
    ELSE IF HasValidationErrors(Validate(test, cfg)) THEN Unsynced
    ELSE Synced

\* A mutant of DetectSyncStatus: the test's own case ID is not looked at.
DetectSyncStatusIgnoringCaseId(test, mapping, currentHash, cfg) ==
    IF HasValidationErrors(Validate(test, cfg)) THEN Unsynced
    ELSE IF mapping = NullMapping THEN Unsynced
    ELSE IF mapping.lastSyncedHash # currentHash THEN NeedsUpdate
    ELSE Synced

\* A mutant of DetectSyncStatus: a record without a stored hash counts as current.
DetectSyncStatusNullHashSynced(test, mapping, currentHash, cfg) ==
    IF HasValidationErrors(Validate(test, cfg)) THEN Unsynced
    ELSE IF ~Truthy(test.testCaseId) \/ mapping = NullMapping THEN Unsynced
    ELSE IF mapping.lastSyncedHash # Null /\ mapping.lastSyncedHash # currentHash
        THEN NeedsUpdate
    ELSE Synced

DetectSyncStatus(test, mapping, currentHash, cfg) ==
    IF HasValidationErrors(Validate(test, cfg)) THEN Unsynced
    ELSE IF ~Truthy(test.testCaseId) \/ mapping = NullMapping THEN Unsynced
    ELSE IF mapping.lastSyncedHash # currentHash THEN NeedsUpdate
    ELSE Synced

-----------------------------------------------------------------------------
(* createTestCaseMapping and updateSyncStatus. *)

\* new Date().toISOString() at the n-th reading of the clock: a string.
Timestamp(n) == [i \in 1..(n + 1) |-> IF i = 1 THEN "t" ELSE "+"]

\* createTestCaseMapping(testFilePath, testTitle), the clock reading `now'.
CreateTestCaseMapping(testFilePath, testTitle, now) ==
    [id |-> <<"u", "u", "i", "d">>,
     testFilePath |-> testFilePath,
     testTitle |-> testTitle,
     testCaseId |-> Null,
     testCaseKey |-> Null,
     syncStatus |-> Unsynced,
     lastSyncedHash |-> Null,
     lastSyncedAt |-> Null,
     tmsVersion |-> Null,
     tmsUpdatedAt |-> Null,
     conflictDetails |-> Null,
     metadata |-> [createdAt |-> now, updatedAt |-> now,
                   createdBy |-> <<"t", "m", "-", "s", "y", "n", "c", "-", "c", "l", "i">>,
                   syncCount |-> 0, lastError |-> Null]]

\* A mutant of UpdateSyncStatus: every update counts as a sync.
UpdateSyncStatusCountingAll(mapping, status, hash, now) ==
    [mapping EXCEPT
        !.syncStatus = status,
        !.lastSyncedHash = IF hash # Undefined /\ hash # Null THEN hash ELSE @,
        !.lastSyncedAt = IF status = Synced THEN now ELSE @,
        !.metadata.updatedAt = now,
        !.metadata.syncCount = @ + 1]

\* A mutant of UpdateSyncStatus: `hash || mapping.lastSyncedHash'.
UpdateSyncStatusFalsyHash(mapping, status, hash, now) ==
    [mapping EXCEPT
        !.syncStatus = status,
        !.lastSyncedHash = IF Truthy(hash) THEN hash ELSE @,
        !.lastSyncedAt = IF status = Synced THEN now ELSE @,
        !.metadata.updatedAt = now,
        !.metadata.syncCount = IF status = Synced THEN @ + 1 ELSE @]

\* updateSyncStatus(mapping, status, hash?), the clock reading `now'; an
\* omitted hash is Undefined, and `??' replaces undefined and null only.
UpdateSyncStatus(mapping, status, hash, now) ==
    [mapping EXCEPT
        !.syncStatus = status,
        !.lastSyncedHash = IF hash # Undefined /\ hash # Null THEN hash ELSE @,
        !.lastSyncedAt = IF status = Synced THEN now ELSE @,
        !.metadata.updatedAt = now,
        !.metadata.syncCount = IF status = Synced THEN @ + 1 ELSE @]

-----------------------------------------------------------------------------
(* retry and withTimeout. *)

RetryOptions(maxAttempts, initialDelay, maxDelay, backoffMultiplier, retryable) ==
    [maxAttempts |-> maxAttempts, initialDelay |-> initialDelay, maxDelay |-> maxDelay,
     backoffMultiplier |-> backoffMultiplier,
     \* isRetryable, as the set of the error kinds it returns true for
     retryable |-> retryable]

\* The TMSErrors an operation rejects with, by their HTTP status.
TMSErrorKinds == {"tms404", "tms429", "tms500"}

\* The errors an attempt can end with: what the operation rejects with (a
\* TMSError, a NetworkError, some other Error) and the plain Error of
\* withTimeout's timer.
ErrorKinds == TMSErrorKinds \cup {"network", "other", "timeout"}

\* error.statusCode of a TMSError.
StatusCode(kind) ==
    CASE kind = "tms404" -> 404
      [] kind = "tms429" -> 429
      [] kind = "tms500" -> 500

\* A mutant of IsRetryableError: every TMSError is retryable.
IsRetryableErrorAnyStatus(kind) == kind \in TMSErrorKinds \cup {"network"}

\* A mutant of IsRetryableError: the Error of a timeout is retryable too.
IsRetryableErrorOrTimeout(kind) ==
    \/ kind \in {"network", "timeout"}
    \/ kind \in TMSErrorKinds /\ (StatusCode(kind) >= 500 \/ StatusCode(kind) = 429)

\* isRetryableError, on the kind of the error.
IsRetryableError(kind) ==
    IF kind \in TMSErrorKinds
        THEN StatusCode(kind) >= 500 \/ StatusCode(kind) = 429
        ELSE kind = "network"

\* DEFAULT_RETRY_OPTIONS.isRetryable, as the set of the kinds it keeps.
DefaultRetryable == {kind \in ErrorKinds : IsRetryableError(kind)}

\* The default isRetryable; a caller's isRetryable, or none at all, can keep
\* every error.
RetryableSets == {DefaultRetryable, ErrorKinds}

\* The error object raised in the attempt-th attempt.
ErrorOf(kind, attempt) == [kind |-> kind, attempt |-> attempt]

Fulfilled(attempt) == [state |-> "fulfilled", value |-> attempt]
Rejected(error) == [state |-> "rejected", error |-> error]
Pending == [state |-> "pending"]

\* One operation() call wrapped by withTimeout: the operation's promise, the
\* timer of setTimeout, the promise of Promise.race, and the order in which
\* the operation settled and the timer fired.
Invocation(operation, timer, race, events) ==
    [operation |-> operation, timer |-> timer, race |-> race, events |-> events]

MathMin(a, b) == IF a <= b THEN a ELSE b

\* delay = Math.min(delay * opts.backoffMultiplier, opts.maxDelay)
NextDelay(delay, opts) == MathMin(delay * opts.backoffMultiplier, opts.maxDelay)

\* opts.isRetryable ? opts.isRetryable(error) : true
ShouldRetry(opts, error) == error.kind \in opts.retryable

\* A mutant of WithTimeout: the operation is awaited without a timer.
WithTimeoutUnarmed(operation) == Invocation(operation, "none", Pending, <<>>)

\* withTimeout(operation(), opts.timeout) as it is called: the timer is set and
\* nothing has settled.
WithTimeout(operation) == Invocation(operation, "armed", Pending, <<>>)

\* A mutant of RacedBy: one race promise is shared; whatever settles, settles
\* the attempt that is awaited.
RacedByAwaited(index, attempt) == attempt

\* The promise that a settling promise of the index-th withTimeout call
\* settles: the Promise.race of that very call.
RacedBy(index, attempt) == index

\* The state of retry's frame after `const opts ... let delay'.
RetryFrame(opts) ==
    [op |-> "retry", pc |-> "loop", opts |-> opts, attempt |-> 0,
     delay |-> opts.initialDelay, errors |-> <<>>, slept |-> <<>>,
     result |-> Pending]

\* A mutant of CatchBlock: the error thrown is the first one collected.
CatchBlockThrowingFirst(frame, error) ==
    LET errors == Append(frame.errors, error)
    IN IF frame.attempt >= frame.opts.maxAttempts \/ ~ShouldRetry(frame.opts, error)
        THEN [frame EXCEPT !.errors = errors, !.pc = "thrown",
                           !.result = Rejected(errors[1])]
        ELSE [frame EXCEPT !.errors = errors, !.pc = "sleeping",
                           !.slept = Append(@, frame.delay)]

\* The catch clause of retry up to `await sleep(delay)': the frame it leaves.
CatchBlock(frame, error) ==
    LET errors == Append(frame.errors, error)
    IN IF frame.attempt >= frame.opts.maxAttempts \/ ~ShouldRetry(frame.opts, error)
        THEN [frame EXCEPT !.errors = errors, !.pc = "thrown",
                           !.result = Rejected(error)]
        ELSE [frame EXCEPT !.errors = errors, !.pc = "sleeping",
                           !.slept = Append(@, frame.delay)]

-----------------------------------------------------------------------------
(* TestParser, from the declarations of a source file on. *)

\* A source file as the parser sees it: whether its text can be read, the tags
\* of the first JSDoc block of the file (shared by every test of the file), and
\* the recognised test declarations in declaration order.
SourceFile(readable, jsdoc, decls) ==
    [readable |-> readable, jsdoc |-> jsdoc, decls |-> decls]

TestDecl(title, type, playwrightTags, actionSteps, verificationSteps, line) ==
    [title |-> title, type |-> type, playwrightTags |-> playwrightTags,
     actionSteps |-> actionSteps, verificationSteps |-> verificationSteps,
     lineNumber |-> line]

\* constructor(projectKey: string = 'MM'): the default replaces undefined only.
ParserProjectKey(cfg) ==
    IF cfg.projectKey = Undefined THEN <<"M", "M">> ELSE cfg.projectKey

\* A mutant of ExtractTestCaseId: the ID of any project is taken from the title.
ExtractTestCaseIdAnyProject(title, projectKey) ==
    LET upper == RunLength(title, 1, UpperCase)
        digits == RunLength(title, upper + 3, Digit)
        colon == upper + 3 + digits
    IN IF /\ upper >= 1
          /\ Len(title) >= colon
          /\ title[upper + 1] = "-"
          /\ title[upper + 2] = "T"
          /\ digits >= 1
          /\ title[colon] = ":"
           THEN SubSeq(title, 1, colon - 1)
           ELSE Undefined

\* title.match(new RegExp(`^(${projectKey}-T\\d+):`))
ExtractTestCaseId(title, projectKey) ==
    LET head == projectKey \o <<"-", "T">>
        digits == RunLength(title, Len(head) + 1, Digit)
        colon == Len(head) + digits + 1
    IN IF /\ IsPrefix(head, title)
          /\ digits >= 1
          /\ Len(title) >= colon
          /\ title[colon] = ":"
           THEN SubSeq(title, 1, colon - 1)
           ELSE Undefined

ParseTestCallExpression(decl, jsdoc, projectKey) ==
    ParsedTest(decl.title, ExtractTestCaseId(decl.title, projectKey), decl.type,
               JSDocTags(jsdoc.objective, jsdoc.precondition, jsdoc.knownIssue,
                         decl.playwrightTags),
               decl.actionSteps, decl.verificationSteps, decl.lineNumber)

\* An outcome of a call that may throw.
Returned(value) == [threw |-> FALSE, value |-> value]
Threw(text, arg) == [threw |-> TRUE, error |-> [text |-> text, arg |-> arg]]

\* TestParser.parseTestFile(filePath)
ParseTestFile(filePath, source, projectKey) ==
    IF ~source.readable
        THEN Threw("Failed to read file ", filePath)
        ELSE Returned([filePath |-> filePath,
                       tests |-> [i \in 1..Len(source.decls) |->
                                    ParseTestCallExpression(source.decls[i], source.jsdoc,
                                                            projectKey)],
                       totalTests |-> Len(source.decls)])

-----------------------------------------------------------------------------
(* MappingManager.loadMapping. *)

\* A mapping file: whether it exists, what JSON.parse makes of its content
\* ("syntaxError", "nonArray" or "array") and, for an array, its entries; an
\* entry is a record and whether it carries every required field.
MappingFile(exists, content, entries) ==
    [exists |-> exists, content |-> content, entries |-> entries]

MappingEntry(valid, record) == [valid |-> valid, record |-> record]

MissingMappingFile == MappingFile(FALSE, "array", <<>>)

\* An entry of the parsed array as JSON.parse returns it: the kind of value,
\* the keys it has, its metadata value (kind and keys), and the record it is
\* when read as a TestCaseMapping.
JsonEntry(kind, fields, metadataKind, metadataFields, record) ==
    [kind |-> kind, fields |-> fields,
     metadata |-> [kind |-> metadataKind, fields |-> metadataFields],
     record |-> record]

\* requiredFields and requiredMetadataFields of validateMapping.
RequiredFields == <<"id", "testFilePath", "testTitle", "syncStatus", "metadata">>
RequiredMetadataFields == <<"createdAt", "updatedAt", "createdBy", "syncCount">>

\* The first field of the list that the keys lack, or 0.
FirstMissing(required, keys) ==
    IF \A i \in 1..Len(required) : required[i] \in keys THEN 0
    ELSE CHOOSE i \in 1..Len(required) :
            /\ required[i] \notin keys
            /\ \A j \in 1..(i - 1) : required[j] \in keys

\* MappingManager.validateMapping(mapping): returns, or throws the error of
\* the first check that fails. typeof is 'object' for objects, arrays and null.
ValidateMapping(entry) ==
    IF entry.kind \notin {"object", "array"}
        THEN Threw("Mapping must be an object", <<>>)
    ELSE IF FirstMissing(RequiredFields, entry.fields) # 0
        THEN Threw("Missing required field: ",
                   RequiredFields[FirstMissing(RequiredFields, entry.fields)])
    ELSE IF entry.metadata.kind \notin {"object", "array"}
        THEN Threw("Missing required field: metadata", <<>>)
    ELSE IF FirstMissing(RequiredMetadataFields, entry.metadata.fields) # 0
        THEN Threw("Missing required metadata field: ",
                   RequiredMetadataFields[FirstMissing(RequiredMetadataFields,
                                                       entry.metadata.fields)])
    ELSE Returned(TRUE)

\* The mapping file whose parsed content is the document.
MappingFileOf(document) ==
    MappingFile(document.exists, document.content,
                [i \in 1..Len(document.entries) |->
                    MappingEntry(~ValidateMapping(document.entries[i]).threw,
                                 document.entries[i].record)])

\* A mutant of LoadMapping: the entries that fail validation are dropped.
LoadMappingSkippingInvalid(filePath, mappingFile) ==
    IF ~mappingFile.exists THEN Returned(<<>>)
    ELSE IF mappingFile.content = "syntaxError"
        THEN Threw("Invalid JSON in mapping file: ", filePath)
    ELSE IF mappingFile.content # "array"
        THEN Threw("Mapping file must contain an array", <<>>)
    ELSE LET valid == SelectSeq(mappingFile.entries, LAMBDA e : e.valid)
         IN Returned([i \in 1..Len(valid) |-> valid[i].record])

LoadMapping(filePath, mappingFile) ==
    IF ~mappingFile.exists THEN Returned(<<>>)
    ELSE IF mappingFile.content = "syntaxError"
        THEN Threw("Invalid JSON in mapping file: ", filePath)
    ELSE IF mappingFile.content # "array"
        THEN Threw("Mapping file must contain an array", <<>>)
    ELSE IF \E i \in 1..Len(mappingFile.entries) : ~mappingFile.entries[i].valid
        THEN Threw("Missing required field", <<>>)
    ELSE Returned([i \in 1..Len(mappingFile.entries) |-> mappingFile.entries[i].record])

-----------------------------------------------------------------------------
(* retryBatch. *)

\* retryBatch: the reason of a rejection as the entry reports it,
\* result.reason instanceof Error ? result.reason : new Error(String(reason)).
AsError(reason) ==
    IF reason.instanceOfError THEN reason
    ELSE [instanceOfError |-> TRUE, message |-> reason.message]

\* One entry of the array retryBatch resolves with.
BatchEntry(item, result, error) == [item |-> item, result |-> result, error |-> error]

\* The callback of results.map in retryBatch, for the index-th result.
BatchEntryAt(items, results, index) ==
    IF ~Truthy(items[index])
        THEN Threw("Item at index is undefined", index)
    ELSE IF results[index].state = "fulfilled"
        THEN Returned(BatchEntry(items[index], results[index].value, Null))
    ELSE Returned(BatchEntry(items[index], Null, AsError(results[index].error)))

\* retryBatch after `await Promise.allSettled(...)': results.map(...) returns
\* the entries, or throws what its callback throws first.
BatchResults(items, results) ==
    IF \E i \in 1..Len(items) : BatchEntryAt(items, results, i).threw
        THEN BatchEntryAt(items, results,
                          CHOOSE i \in 1..Len(items) :
                             /\ BatchEntryAt(items, results, i).threw
                             /\ \A j \in 1..(i - 1) : ~BatchEntryAt(items, results, j).threw)
        ELSE Returned([i \in 1..Len(items) |-> BatchEntryAt(items, results, i).value])

-----------------------------------------------------------------------------
(* MappingManager.saveMapping and the file it writes. *)

\* The text of a mapping file, in the pieces JSON.stringify produces for an
\* array of mappings: the brackets and the text of each object.
OpenBracket == [token |-> "["]
CloseBracket == [token |-> "]"]
ObjectText(record) == [token |-> "object", record |-> record]

\* JSON.stringify(mappings, null, 2)
JsonStringify(mappings) ==
    <<OpenBracket>> \o [i \in 1..Len(mappings) |-> ObjectText(mappings[i])]
                    \o <<CloseBracket>>

\* Whether JSON.parse accepts the text, for a text made of those pieces: the
\* empty text, and an array that is not closed, are SyntaxErrors.
JsonParses(text) ==
    /\ Len(text) >= 2
    /\ text[1] = OpenBracket
    /\ text[Len(text)] = CloseBracket
    /\ \A i \in 2..(Len(text) - 1) : text[i].token = "object"

\* A file of the file system: whether it exists, and its text.
File(exists, text) == [exists |-> exists, text |-> text]

\* What readFile and JSON.parse make of the file as it is now.
ReadMappingFile(file) ==
    IF ~file.exists THEN MissingMappingFile
    ELSE IF ~JsonParses(file.text) THEN MappingFile(TRUE, "syntaxError", <<>>)
    ELSE MappingFile(TRUE, "array",
                     [i \in 1..(Len(file.text) - 2) |->
                         MappingEntry(TRUE, file.text[i + 1].record)])

\* writeFile(filePath, content, 'utf-8') opens the path with flag 'w', which
\* creates the file or truncates it, ...
OpenForWriting(file) == File(TRUE, <<>>)

\* ... and then writes the content to it, front to back, in one write or in
\* several.
WrittenUpTo(content, written) == File(TRUE, SubSeq(content, 1, written))

-----------------------------------------------------------------------------

(* Scanner.scanFile. *)

FileResult(filePath, testCount, synced, unmapped, outOfSync, validationErrors, issues) ==
    [filePath |-> filePath, testCount |-> testCount, syncedCount |-> synced,
     unmappedCount |-> unmapped, outOfSyncCount |-> outOfSync,
     validationErrorCount |-> validationErrors, issues |-> issues]

ScanIssue(testTitle, syncStatus, text, parts) ==
    [testTitle |-> testTitle, syncStatus |-> syncStatus,
     message |-> [text |-> text, parts |-> parts]]

\* A mutant of CreateMappingMap: the first record of a case ID wins.
RECURSIVE CreateMappingMapFirstWins(_)
CreateMappingMapFirstWins(mappings) ==
    IF mappings = <<>> THEN <<>>
    ELSE LET map == CreateMappingMapFirstWins(SubSeq(mappings, 1, Len(mappings) - 1))
             last == mappings[Len(mappings)]
         IN IF Truthy(last.testCaseId)
               /\ ~\E i \in 1..Len(map) : map[i].testCaseId = last.testCaseId
                THEN Append(map, last)
                ELSE map

\* createMappingMap(mappings): the Map as its entries in insertion order, one
\* per key; map.set on a key already present replaces its value in place.
RECURSIVE CreateMappingMap(_)
CreateMappingMap(mappings) ==
    IF mappings = <<>> THEN <<>>
    ELSE LET map == CreateMappingMap(SubSeq(mappings, 1, Len(mappings) - 1))
             last == mappings[Len(mappings)]
         IN IF ~Truthy(last.testCaseId) THEN map
            ELSE IF \E i \in 1..Len(map) : map[i].testCaseId = last.testCaseId
                THEN [i \in 1..Len(map) |->
                        IF map[i].testCaseId = last.testCaseId THEN last ELSE map[i]]
            ELSE Append(map, last)

\* test.testCaseId ? mappingMap.get(test.testCaseId) || null : null
MappingFor(test, mappingMap) ==
    IF Truthy(test.testCaseId)
       /\ \E i \in 1..Len(mappingMap) : mappingMap[i].testCaseId = test.testCaseId
        THEN mappingMap[CHOOSE i \in 1..Len(mappingMap) :
                            mappingMap[i].testCaseId = test.testCaseId]
        ELSE NullMapping

\* A mutant of HandleUnsyncedStatus: the two counters are taken for each other.
HandleUnsyncedStatusSwapped(acc, test, hasValidationErrors, validationResult) ==
    IF hasValidationErrors
        THEN [acc EXCEPT
                !.unmappedCount = @ + 1,
                !.issues = Append(@, ScanIssue(test.title, Unsynced, "Validation failed: ",
                                   SeqMap(LAMBDA i : i.message,
                                          ErrorIssues(validationResult.issues))))]
        ELSE [acc EXCEPT
                !.validationErrorCount = @ + 1,
                !.issues = Append(@, ScanIssue(test.title, Unsynced,
                                   "Test is not mapped to a TMS test case", <<>>))]

\* handleUnsyncedStatus, on the counters and issues so far.
HandleUnsyncedStatus(acc, test, hasValidationErrors, validationResult) ==
    IF hasValidationErrors
        THEN [acc EXCEPT
                !.validationErrorCount = @ + 1,
                !.issues = Append(@, ScanIssue(test.title, Unsynced, "Validation failed: ",
                                   SeqMap(LAMBDA i : i.message,
                                          ErrorIssues(validationResult.issues))))]
        ELSE [acc EXCEPT
                !.unmappedCount = @ + 1,
                !.issues = Append(@, ScanIssue(test.title, Unsynced,
                                   "Test is not mapped to a TMS test case", <<>>))]

\* A mutant of CategorizeTestResult: a changed test is reported but not counted.
CategorizeTestResultUncounted(acc, test, syncStatus, hasValidationErrors, validationResult) ==
    IF syncStatus = Synced THEN [acc EXCEPT !.syncedCount = @ + 1]
    ELSE IF syncStatus = Unsynced
        THEN HandleUnsyncedStatus(acc, test, hasValidationErrors, validationResult)
    ELSE IF syncStatus = NeedsUpdate
        THEN [acc EXCEPT
                !.issues = Append(@, ScanIssue(test.title, syncStatus,
                                   "Test content has changed since last sync", <<>>))]
    ELSE acc

\* categorizeTestResult: the switch has no default, so any other status
\* changes nothing.
CategorizeTestResult(acc, test, syncStatus, hasValidationErrors, validationResult) ==
    IF syncStatus = Synced THEN [acc EXCEPT !.syncedCount = @ + 1]
    ELSE IF syncStatus = Unsynced
        THEN HandleUnsyncedStatus(acc, test, hasValidationErrors, validationResult)
    ELSE IF syncStatus = NeedsUpdate
        THEN [acc EXCEPT
                !.outOfSyncCount = @ + 1,
                !.issues = Append(@, ScanIssue(test.title, syncStatus,
                                   "Test content has changed since last sync", <<>>))]
    ELSE acc

\* The status scanFile's for-loop gives a test: the digest, the record looked
\* up by the test's case ID, detectSyncStatus.
SyncStatusInFile(test, mappingMap, cfg) ==
    DetectSyncStatus(test, MappingFor(test, mappingMap), CalculateHash(test), cfg)

\* One iteration of scanFile's for-loop over parseResult.tests.
AnalyzeTest(acc, test, mappingMap, cfg) ==
    LET currentHash == CalculateHash(test)
        mapping == MappingFor(test, mappingMap)
        validationResult == Validate(test, cfg)
        hasValidationErrors == HasValidationErrors(validationResult)
        syncStatus == DetectSyncStatus(test, mapping, currentHash, cfg)
    IN CategorizeTestResult(acc, test, syncStatus, hasValidationErrors, validationResult)

RECURSIVE AnalyzeTests(_, _, _, _)
AnalyzeTests(acc, tests, mappingMap, cfg) ==
    IF tests = <<>> THEN acc
    ELSE AnalyzeTests(AnalyzeTest(acc, Head(tests), mappingMap, cfg), Tail(tests),
                      mappingMap, cfg)

\* Scanner.scanFile(filePath): the FileResult, or the error it throws.
ScanFile(filePath, source, mappingFile, cfg) ==
    LET parseResult == ParseTestFile(filePath, source, ParserProjectKey(cfg))
        mappings == LoadMapping(filePath, mappingFile)
    IN IF parseResult.threw THEN parseResult
       ELSE IF mappings.threw THEN mappings
       ELSE Returned(AnalyzeTests(
                FileResult(filePath, Len(parseResult.value.tests), 0, 0, 0, 0, <<>>),
                parseResult.value.tests, CreateMappingMap(mappings.value), cfg))

-----------------------------------------------------------------------------
(* Scanner.scanFile as an async function: its two synchronous segments. *)

\* The parser's ts-morph Project after createSourceFile(filePath, code,
\* {overwrite: true}): the source files it holds, the latest last.
CreateSourceFile(project, filePath, source) ==
    Append(SelectSeq(project, LAMBDA f : f.filePath # filePath),
           [filePath |-> filePath, source |-> source])

\* A mutant of HeldParseResult: the parse result is read back from the source
\* file the shared Project created last.
HeldParseResultOfProject(call, project, projectKey) ==
    LET latest == project[Len(project)]
    IN ParseTestFile(latest.filePath, latest.source, projectKey).value

\* The parseResult that scanFile uses after `await loadMapping': the local of
\* the call, set before the await.
HeldParseResult(call, project, projectKey) == call.parseResult

\* scanFile up to `await this.mappingManager.loadMapping(...)': the call's
\* frame and the project it leaves.
ScanFileBegin(filePath, source, project, cfg) ==
    LET parseResult == ParseTestFile(filePath, source, ParserProjectKey(cfg))
    IN IF parseResult.threw
        THEN [call |-> [pc |-> "settled", parseResult |-> Null,
                        outcome |-> parseResult],
              project |-> project]
        ELSE [call |-> [pc |-> "awaiting", parseResult |-> parseResult.value,
                        outcome |-> Null],
              project |-> CreateSourceFile(project, filePath, source)]

\* scanFile from the await on: the loaded mappings, the loop over the tests.
ScanFileResume(call, filePath, mappingFile, project, cfg) ==
    LET mappings == LoadMapping(filePath, mappingFile)
        parseResult == HeldParseResult(call, project, ParserProjectKey(cfg))
    IN [call EXCEPT
          !.pc = "settled",
          !.outcome =
              IF mappings.threw THEN mappings
              ELSE Returned(AnalyzeTests(
                      FileResult(filePath, Len(parseResult.tests), 0, 0, 0, 0, <<>>),
                      parseResult.tests, CreateMappingMap(mappings.value), cfg))]

-----------------------------------------------------------------------------
(* Scanner.scanDirectory. *)

\* A mutant of CreateErrorFileResult: the failed file counts no validation error.
CreateErrorFileResultUncounted(filePath, error) ==
    FileResult(filePath, 0, 0, 0, 0, 0,
               <<ScanIssue("File Scan Error", Unsynced, error.text, <<error.arg>>)>>)

CreateErrorFileResult(filePath, error) ==
    FileResult(filePath, 0, 0, 0, 0, 1,
               <<ScanIssue("File Scan Error", Unsynced, error.text, <<error.arg>>)>>)

RECURSIVE SumOf(_, _)
SumOf(results, field) ==
    IF results = <<>> THEN 0 ELSE Head(results)[field] + SumOf(Tail(results), field)

\* Math.round(x) for x = num / den with den > 0: floor(x + 1/2).
MathRound(num, den) == (2 * num + den) \div (2 * den)

\* Scanner.calculateMetrics(fileResults)
CalculateMetrics(results) ==
    LET totalTests == SumOf(results, "testCount")
        syncedTests == SumOf(results, "syncedCount")
        unmappedTests == SumOf(results, "unmappedCount")
        outOfSyncTests == SumOf(results, "outOfSyncCount")
        validationErrors == SumOf(results, "validationErrorCount")
        mappedTests == syncedTests + outOfSyncTests
        validTests == totalTests - validationErrors
    IN [totalTests |-> totalTests,
        syncedTests |-> syncedTests,
        unmappedTests |-> unmappedTests,
        outOfSyncTests |-> outOfSyncTests,
        validationErrors |-> validationErrors,
        syncCoverage |->
            IF totalTests > 0 THEN MathRound(mappedTests * 100, totalTests) ELSE 0,
        documentationCompliance |->
            IF totalTests > 0 THEN MathRound(validTests * 100, totalTests) ELSE 0]

-----------------------------------------------------------------------------
(* Inputs. *)

S_a == <<"a">>
S_b == <<"b">>
S_a_padded == <<" ", "a", "\t">>
S_a_b == <<"a", " ", "b">>
S_a__b == <<"a", " ", " ", "b">>
S_a_bar_b == <<"a", "|", "b">>

Id_MM_T1 == <<"M", "M", "-", "T", "1">>
Id_MM_T2 == <<"M", "M", "-", "T", "2">>
Id_PROJ_T1 == <<"P", "R", "O", "J", "-", "T", "1">>
Id_MM_T == <<"M", "M", "-", "T">>

Title_Login == <<"L", "o", "g", "i", "n">>
Title_LoginWorks == <<"L", "o", "g", "i", "n", " ", "w", "o", "r", "k", "s">>
Title_T1 == Id_MM_T1 \o <<":", " ">> \o Title_LoginWorks
Title_PROJ_T1 == Id_PROJ_T1 \o <<":", " ">> \o Title_LoginWorks
Title_PROJ_T1_Short == Id_PROJ_T1 \o <<":", " ">> \o Title_Login
Title_T2 == Id_MM_T2 \o <<":", " ">> \o Title_LoginWorks
Title_T1_Renamed == Id_MM_T1 \o <<":", " ">> \o Title_LoginWorks \o <<"!">>

Path_a == <<"a", ".", "t", "s">>
Path_b == <<"b", ".", "t", "s">>
Path_c == <<"c", ".", "t", "s">>
Path_d == <<"d", ".", "t", "s">>
Paths == <<Path_a, Path_b, Path_c, Path_d>>

SeqsUpTo(S, n) == UNION {[1..k -> S] : k \in 0..n}

Reorderings(n) == {f \in [1..n -> 1..n] : \A i, j \in 1..n : f[i] = f[j] => i = j}

\* Validation configurations: the default, one that requires nothing, and the
\* ones in between.
Configs ==
    {ValidationConfig(tags, a, v, <<"M", "M">>) :
        tags \in {{"@objective"}, {}}, a \in BOOLEAN, v \in BOOLEAN}

LenientConfig == ValidationConfig({}, FALSE, FALSE, <<"M", "M">>)

IdleCall == [op |-> "none"]

\* No loadMapping, concurrent scan, saveMapping or retryBatch call has been made.
IoIdle ==
    /\ lmCall = IdleCall
    /\ tasks = <<>>
    /\ store = IdleCall
    /\ batch = IdleCall

\* No validate, updateSyncStatus or retry call has been made.
UtilIdle ==
    /\ vCall = IdleCall
    /\ tcm = IdleCall
    /\ updates = <<>>
    /\ rt = IdleCall
    /\ invocations = <<>>
    /\ IoIdle

-----------------------------------------------------------------------------
(* calculateHash applied to two related tests. *)

StepTexts == {S_a, S_a_padded, S_a_b, S_a__b}

Steps == {TestStep(t, l) : t \in StepTexts, l \in 1..MaxLine}

StepLists == SeqsUpTo(Steps, MaxSteps)

\* Tests whose one step list is drawn from StepLists, the other being empty
\* or a single step.
HashTests ==
    {ParsedTest(Title_T1, Id_MM_T1, "test",
                JSDocTags(objective, NoPrecondition, Undefined, <<>>),
                IF richActions THEN rich ELSE other,
                IF richActions THEN other ELSE rich, 1) :
        objective \in {Undefined, S_a},
        richActions \in BOOLEAN,
        rich \in StepLists,
        other \in {<<>>, <<TestStep(S_b, 1)>>}}

HashInit ==
    /\ config = DefaultValidationConfig
    /\ hashPc = "input"
    /\ hashTestA \in HashTests
    /\ hashTestB = hashTestA
    /\ fpA = Undefined
    /\ fpB = Undefined
    /\ dsCall = IdleCall
    /\ scanned = IdleCall
    /\ files = <<>>
    /\ nextFile = 1
    /\ fileResults = <<>>
    /\ scanResult = IdleCall
    /\ pc = "idle"
    /\ UtilIdle

HashBoth(b, at) ==
    /\ hashTestB' = b
    /\ fpA' = CalculateHash(hashTestA)
    /\ fpB' = CalculateHash(b)
    /\ hashPc' = at
    /\ UNCHANGED <<config, hashTestA, dsCall, scanned, files, nextFile, fileResults,
                   scanResult, pc,
                   utilVars>>

\* The second test is the first with its actionSteps list reordered.
PermuteActionSteps ==
    /\ hashPc = "input"
    /\ \E p \in Reorderings(Len(hashTestA.actionSteps)) :
          HashBoth([hashTestA EXCEPT
                      !.actionSteps = [i \in 1..Len(@) |-> @[p[i]]]],
                   "permutedActions")

\* The second test is the first with its verificationSteps list reordered.
PermuteVerificationSteps ==
    /\ hashPc = "input"
    /\ \E p \in Reorderings(Len(hashTestA.verificationSteps)) :
          HashBoth([hashTestA EXCEPT
                      !.verificationSteps = [i \in 1..Len(@) |-> @[p[i]]]],
                   "permutedVerifications")

\* The second test is the first with the text of one action step replaced.
EditActionStep ==
    /\ hashPc = "input"
    /\ \E i \in 1..Len(hashTestA.actionSteps), t \in StepTexts :
          HashBoth([hashTestA EXCEPT !.actionSteps[i].text = t], "edited")

\* The second test is the first with the text of one verification step replaced.
EditVerificationStep ==
    /\ hashPc = "input"
    /\ \E i \in 1..Len(hashTestA.verificationSteps), t \in StepTexts :
          HashBoth([hashTestA EXCEPT !.verificationSteps[i].text = t], "edited")

HashNext ==
    \/ PermuteActionSteps
    \/ PermuteVerificationSteps
    \/ EditActionStep
    \/ EditVerificationStep

SpecHash == HashInit /\ [][HashNext]_vars

-----------------------------------------------------------------------------
(* calculateHash applied to two arbitrary tests. *)

CanonTests ==
    {ParsedTest(Title_T1, Id_MM_T1, "test",
                JSDocTags(objective, precondition, Undefined, <<>>),
                actions, verifications, 1) :
        objective \in {Undefined, S_a},
        precondition \in {NoPrecondition, PreconditionString(S_a_bar_b),
                          PreconditionArray(<<S_a_bar_b>>),
                          PreconditionArray(<<S_a, S_b>>)},
        actions \in {<<>>, <<TestStep(S_a_bar_b, 1)>>,
                     <<TestStep(S_a, 1), TestStep(S_b, 2)>>},
        verifications \in {<<>>, <<TestStep(S_a, 3)>>}}

CanonInit ==
    /\ config = DefaultValidationConfig
    /\ hashPc = "input"
    /\ hashTestA \in CanonTests
    /\ hashTestB = hashTestA
    /\ fpA = Undefined
    /\ fpB = Undefined
    /\ dsCall = IdleCall
    /\ scanned = IdleCall
    /\ files = <<>>
    /\ nextFile = 1
    /\ fileResults = <<>>
    /\ scanResult = IdleCall
    /\ pc = "idle"
    /\ UtilIdle

HashPair ==
    /\ hashPc = "input"
    /\ \E b \in CanonTests : HashBoth(b, "pair")

CanonNext == HashPair

SpecCanon == CanonInit /\ [][CanonNext]_vars

-----------------------------------------------------------------------------
(* calculateHash applied to a test and to the same test less one section. *)

Sections == {"objective", "precondition", "actions", "verifications", "knownIssue"}

SectionTests ==
    {ParsedTest(Title_T1, Id_MM_T1, "test",
                JSDocTags(objective, precondition, knownIssue, <<>>),
                actions, verifications, 1) :
        objective \in {Undefined, <<>>, S_a},
        precondition \in {NoPrecondition, PreconditionArray(<<>>),
                          PreconditionString(S_a), PreconditionArray(<<S_a, S_b>>)},
        knownIssue \in {Undefined, S_b},
        actions \in {<<>>, <<TestStep(S_a, 1)>>},
        verifications \in {<<>>, <<TestStep(S_b, 2)>>}}

\* The test with one section taken out: the tag deleted, the step list emptied.
WithoutSection(test, section) ==
    CASE section = "objective" -> [test EXCEPT !.jsdocTags.objective = Undefined]
      [] section = "precondition" ->
            [test EXCEPT !.jsdocTags.precondition = NoPrecondition]
      [] section = "actions" -> [test EXCEPT !.actionSteps = <<>>]
      [] section = "verifications" -> [test EXCEPT !.verificationSteps = <<>>]
      [] section = "knownIssue" -> [test EXCEPT !.jsdocTags.knownIssue = Undefined]

SectionInit ==
    /\ config = DefaultValidationConfig
    /\ hashPc = "input"
    /\ hashTestA \in SectionTests
    /\ hashTestB = hashTestA
    /\ fpA = Undefined
    /\ fpB = Undefined
    /\ dsCall = IdleCall
    /\ scanned = IdleCall
    /\ files = <<>>
    /\ nextFile = 1
    /\ fileResults = <<>>
    /\ scanResult = IdleCall
    /\ pc = "idle"
    /\ UtilIdle

\* The second test is the first less one section.
RemoveSection ==
    /\ hashPc = "input"
    /\ \E section \in Sections :
          HashBoth(WithoutSection(hashTestA, section), "sectionRemoved")

SectionNext == RemoveSection

SpecSection == SectionInit /\ [][SectionNext]_vars

-----------------------------------------------------------------------------
(* Validator.validate called on its own. *)

ValidateTests ==
    {ParsedTest(title, id, "test", JSDocTags(objective, NoPrecondition, Undefined, <<>>),
                actions, verifications, 1) :
        title \in {Title_Login, Title_T1},
        id \in {Undefined, <<>>, Id_MM_T1, Id_PROJ_T1, Id_MM_T},
        objective \in {Undefined, <<>>, S_a},
        actions \in {<<>>, <<TestStep(S_a, 1)>>},
        verifications \in {<<>>, <<TestStep(S_b, 2)>>}}

ValidateConfigs ==
    {ValidationConfig(tags, a, v, key) :
        tags \in {{"@objective"}, {"objective"}, {}},
        a \in BOOLEAN, v \in BOOLEAN,
        key \in {<<"M", "M">>, <<>>, <<"P", "R", "O", "J">>}}

ValidateInit ==
    /\ config \in ValidateConfigs
    /\ hashPc = "idle"
    /\ hashTestA = IdleCall
    /\ hashTestB = IdleCall
    /\ fpA = Undefined
    /\ fpB = Undefined
    /\ dsCall = IdleCall
    /\ scanned = IdleCall
    /\ files = <<>>
    /\ nextFile = 1
    /\ fileResults = <<>>
    /\ scanResult = IdleCall
    /\ pc = "idle"
    /\ UtilIdle

ValidateCall ==
    /\ vCall = IdleCall
    /\ \E test \in ValidateTests :
          vCall' = [op |-> "validate", test |-> test, result |-> Validate(test, config)]
    /\ UNCHANGED <<config, hashPc, hashTestA, hashTestB, fpA, fpB, dsCall, scanned,
                   files, nextFile, fileResults, scanResult, pc,
                   tcm, updates, rt, invocations,
                   ioVars>>

ValidateNext == ValidateCall

SpecValidate == ValidateInit /\ [][ValidateNext]_vars

-----------------------------------------------------------------------------
(* saveMapping of a path while loadMapping of the same path runs. *)

SavedRecords == {TestCaseMapping(id, Synced, Null) : id \in {Id_MM_T1, Id_MM_T2}}

SavedDocuments == SeqsUpTo(SavedRecords, MaxMappings)

\* The file before the save: none, or a document saved earlier.
PreviousFiles ==
    {File(FALSE, <<>>)} \cup {File(TRUE, JsonStringify(d)) : d \in SavedDocuments}

SaveMappingInit ==
    /\ config = DefaultValidationConfig
    /\ hashPc = "idle"
    /\ hashTestA = IdleCall
    /\ hashTestB = IdleCall
    /\ fpA = Undefined
    /\ fpB = Undefined
    /\ dsCall = IdleCall
    /\ scanned = IdleCall
    /\ files = <<>>
    /\ nextFile = 1
    /\ fileResults = <<>>
    /\ scanResult = IdleCall
    /\ pc = "idle"
    /\ vCall = IdleCall
    /\ tcm = IdleCall
    /\ updates = <<>>
    /\ rt = IdleCall
    /\ invocations = <<>>
    /\ lmCall = IdleCall
    /\ tasks = <<>>
    /\ batch = IdleCall
    /\ \E previous \in PreviousFiles, mappings \in SavedDocuments :
          store = [file |-> previous, previous |-> previous, mappings |-> mappings,
                   content |-> <<>>, save |-> "ready", written |-> 0,
                   load |-> "ready", outcome |-> Null]

\* saveMapping up to `await writeFile(...)': the directory exists, the content
\* is JSON.stringify(mappings, null, 2).
SaveMappingBegin ==
    /\ store.save = "ready"
    /\ store' = [store EXCEPT !.content = JsonStringify(store.mappings),
                              !.save = "opening"]
    /\ UNCHANGED <<scanVars, vCall, tcm, updates, rt, invocations, lmCall, tasks, batch>>

\* writeFile opens the file.
WriteFileOpen ==
    /\ store.save = "opening"
    /\ store' = [store EXCEPT !.file = OpenForWriting(store.file), !.save = "writing"]
    /\ UNCHANGED <<scanVars, vCall, tcm, updates, rt, invocations, lmCall, tasks, batch>>

\* writeFile writes the next part of the content.
WriteFileWrite ==
    /\ store.save = "writing"
    /\ store.written < Len(store.content)
    /\ \E written \in (store.written + 1)..Len(store.content) :
          store' = [store EXCEPT !.file = WrittenUpTo(store.content, written),
                                 !.written = written]
    /\ UNCHANGED <<scanVars, vCall, tcm, updates, rt, invocations, lmCall, tasks, batch>>

\* writeFile has written everything and closes the file: saveMapping resolves.
WriteFileClose ==
    /\ store.save = "writing"
    /\ store.written = Len(store.content)
    /\ store' = [store EXCEPT !.save = "resolved"]
    /\ UNCHANGED <<scanVars, vCall, tcm, updates, rt, invocations, lmCall, tasks, batch>>

\* loadMapping up to `await readFile(...)': without a file it returns [].
LoadMappingExists ==
    /\ store.load = "ready"
    /\ store' = IF store.file.exists
                    THEN [store EXCEPT !.load = "reading"]
                    ELSE [store EXCEPT !.load = "settled",
                                       !.outcome = LoadMapping(Path_a, MissingMappingFile)]
    /\ UNCHANGED <<scanVars, vCall, tcm, updates, rt, invocations, lmCall, tasks, batch>>

\* readFile reads the file as it is now, and loadMapping parses and validates
\* what was read.
LoadMappingRead ==
    /\ store.load = "reading"
    /\ store' = [store EXCEPT !.load = "settled",
                              !.outcome = LoadMapping(Path_a, ReadMappingFile(store.file))]
    /\ UNCHANGED <<scanVars, vCall, tcm, updates, rt, invocations, lmCall, tasks, batch>>

SaveMappingNext ==
    \/ SaveMappingBegin
    \/ WriteFileOpen
    \/ WriteFileWrite
    \/ WriteFileClose
    \/ LoadMappingExists
    \/ LoadMappingRead

SpecSaveMapping == SaveMappingInit /\ [][SaveMappingNext]_vars

-----------------------------------------------------------------------------
(* One retryBatch call, with the retryOperation promises it waits for. *)

\* The items of a batch: case IDs, and the empty string among them.
BatchItems == {<<>>, Id_MM_T1, Id_MM_T2}

\* What a retryOperation rejects with: an Error, or some other value thrown.
BatchReasons ==
    {[instanceOfError |-> isError, message |-> "failed"] : isError \in BOOLEAN}

BatchInit ==
    /\ config = DefaultValidationConfig
    /\ hashPc = "idle"
    /\ hashTestA = IdleCall
    /\ hashTestB = IdleCall
    /\ fpA = Undefined
    /\ fpB = Undefined
    /\ dsCall = IdleCall
    /\ scanned = IdleCall
    /\ files = <<>>
    /\ nextFile = 1
    /\ fileResults = <<>>
    /\ scanResult = IdleCall
    /\ pc = "idle"
    /\ vCall = IdleCall
    /\ tcm = IdleCall
    /\ updates = <<>>
    /\ rt = IdleCall
    /\ invocations = <<>>
    /\ lmCall = IdleCall
    /\ tasks = <<>>
    /\ store = IdleCall
    /\ \E items \in SeqsUpTo(BatchItems, MaxItems) :
          batch = [op |-> "retryBatch", items |-> items,
                   results |-> [i \in 1..Len(items) |-> Pending],
                   pc |-> "awaiting", outcome |-> Null]

\* The retryOperation of one item settles: with the operation's value, or
\* with the error retry gave up on.
RetryOperationSettles ==
    /\ batch.pc = "awaiting"
    /\ \E index \in 1..Len(batch.items) :
          /\ batch.results[index] = Pending
          /\ \E result \in {Fulfilled(index)} \cup {Rejected(r) : r \in BatchReasons} :
                batch' = [batch EXCEPT !.results[index] = result]
    /\ UNCHANGED <<scanVars, vCall, tcm, updates, rt, invocations, lmCall, tasks, store>>

\* Every retryOperation has settled: Promise.allSettled resolves and
\* retryBatch maps the results.
AllSettled ==
    /\ batch.pc = "awaiting"
    /\ \A index \in 1..Len(batch.items) : batch.results[index] # Pending
    /\ batch' = [batch EXCEPT
                    !.pc = "settled",
                    !.outcome = BatchResults(batch.items, batch.results)]
    /\ UNCHANGED <<scanVars, vCall, tcm, updates, rt, invocations, lmCall, tasks, store>>

BatchNext ==
    \/ RetryOperationSettles
    \/ AllSettled

SpecBatch == BatchInit /\ [][BatchNext]_vars

-----------------------------------------------------------------------------
(* detectSyncStatus called on its own. *)

ClassifyTests ==
    {ParsedTest(title, id, "test", JSDocTags(objective, NoPrecondition, Undefined, <<>>),
                actions, verifications, 1) :
        title \in {Title_Login, Title_T1},
        id \in {Undefined, <<>>, Id_MM_T1, Id_PROJ_T1, Id_MM_T},
        objective \in {Undefined, <<>>, S_a},
        actions \in {<<>>, <<TestStep(S_a, 1)>>},
        verifications \in {<<>>, <<TestStep(S_b, 2)>>}}

Digests == {Sha256(S_a), Sha256(S_b)}

ClassifyMappings ==
    {NullMapping} \cup
    {TestCaseMapping(id, status, hash) :
        id \in {Null, Id_MM_T1},
        status \in {Synced, Conflict},
        hash \in {Null} \cup Digests}

ClassifyInit ==
    /\ config \in Configs
    /\ hashPc = "idle"
    /\ hashTestA = IdleCall
    /\ hashTestB = IdleCall
    /\ fpA = Undefined
    /\ fpB = Undefined
    /\ dsCall = IdleCall
    /\ scanned = IdleCall
    /\ files = <<>>
    /\ nextFile = 1
    /\ fileResults = <<>>
    /\ scanResult = IdleCall
    /\ pc = "idle"
    /\ UtilIdle

DetectSyncStatusCall ==
    /\ dsCall = IdleCall
    /\ \E test \in ClassifyTests, mapping \in ClassifyMappings, hash \in Digests :
          dsCall' = [op |-> "detectSyncStatus", test |-> test, mapping |-> mapping,
                     currentHash |-> hash,
                     status |-> DetectSyncStatus(test, mapping, hash, config)]
    /\ UNCHANGED <<config, hashPc, hashTestA, hashTestB, fpA, fpB, scanned, files,
                   nextFile, fileResults, scanResult, pc,
                   utilVars>>

ClassifyNext == DetectSyncStatusCall

SpecClassify == ClassifyInit /\ [][ClassifyNext]_vars

-----------------------------------------------------------------------------
(* scanFile called on its own. *)

\* The body of a test declaration: title and whether it carries steps.
DeclBodies(titles) == {[title |-> t, steps |-> b] : t \in titles, b \in BOOLEAN}

\* The i-th declaration of a file, its steps on the lines below it.
DeclAt(body, i) ==
    TestDecl(body.title, "test", <<>>,
             IF body.steps THEN <<TestStep(S_a, 3 * i + 1)>> ELSE <<>>,
             IF body.steps THEN <<TestStep(S_b, 3 * i + 2)>> ELSE <<>>,
             3 * i)

JSDocWith(objective) ==
    [objective |-> objective, precondition |-> NoPrecondition, knownIssue |-> Undefined]

UnreadableSource == SourceFile(FALSE, JSDocWith(Undefined), <<>>)

ReadableSources(titles, objectives) ==
    {SourceFile(TRUE, JSDocWith(objective), [i \in 1..Len(bodies) |-> DeclAt(bodies[i], i)]) :
        objective \in objectives,
        bodies \in SeqsUpTo(DeclBodies(titles), MaxTests)}

\* The digest a record of the file can hold besides null: the one of the
\* file's first test as it stands.
CurrentHashOf(source) ==
    IF source.readable /\ Len(source.decls) > 0
        THEN CalculateHash(ParseTestCallExpression(source.decls[1], source.jsdoc,
                                                   <<"M", "M">>))
        ELSE Sha256(S_a)

\* Records of a document: for each case ID one that holds the current digest,
\* and for the first ID one that holds none.
MappingRecordsFor(source, ids) ==
    {TestCaseMapping(id, Synced, CurrentHashOf(source)) : id \in ids}
        \cup {TestCaseMapping(Id_MM_T1, Synced, Null)}

BrokenMappingFiles(source) ==
    {MappingFile(TRUE, "syntaxError", <<>>),
     MappingFile(TRUE, "nonArray", <<>>),
     MappingFile(TRUE, "array",
                 <<MappingEntry(FALSE, TestCaseMapping(Id_MM_T1, Synced, Null))>>)}

ValidMappingFiles(source, ids) ==
    {MappingFile(TRUE, "array", [i \in 1..Len(records) |-> MappingEntry(TRUE, records[i])]) :
        records \in SeqsUpTo(MappingRecordsFor(source, ids), MaxMappings)}

ScanFileInit ==
    /\ config \in {DefaultValidationConfig, LenientConfig}
    /\ hashPc = "idle"
    /\ hashTestA = IdleCall
    /\ hashTestB = IdleCall
    /\ fpA = Undefined
    /\ fpB = Undefined
    /\ dsCall = IdleCall
    /\ scanned = IdleCall
    /\ files = <<>>
    /\ nextFile = 1
    /\ fileResults = <<>>
    /\ scanResult = IdleCall
    /\ pc = "idle"
    /\ UtilIdle

ScanFileCall ==
    /\ scanned = IdleCall
    /\ \E source \in {UnreadableSource}
                        \cup ReadableSources({Title_T1, Title_Login},
                                             {Undefined, S_a}) :
          \E mappingFile \in {MissingMappingFile} \cup BrokenMappingFiles(source)
                                \cup ValidMappingFiles(source, {Null, <<>>, Id_MM_T1, Id_MM_T2}) :
              scanned' = [op |-> "scanFile", filePath |-> Path_a, source |-> source,
                          mappingFile |-> mappingFile,
                          outcome |-> ScanFile(Path_a, source, mappingFile, config)]
    /\ UNCHANGED <<config, hashPc, hashTestA, hashTestB, fpA, fpB, dsCall, files,
                   nextFile, fileResults, scanResult, pc,
                   utilVars>>

ScanFileNext == ScanFileCall

SpecScanFile == ScanFileInit /\ [][ScanFileNext]_vars

-----------------------------------------------------------------------------
(* scanFile of a file that holds one test, with the calls it makes. *)

TitledSources ==
    {SourceFile(TRUE, JSDocWith(objective),
                <<TestDecl(title, "test", <<>>,
                           IF steps THEN <<TestStep(S_a, 2)>> ELSE <<>>,
                           IF steps THEN <<TestStep(S_b, 3)>> ELSE <<>>, 1)>>) :
        objective \in {Undefined, S_a},
        title \in {Title_PROJ_T1, Title_PROJ_T1_Short, Title_T1, Title_Login},
        steps \in BOOLEAN}

TitledMappingFiles(source) ==
    {MissingMappingFile} \cup
    {MappingFile(TRUE, "array",
                 <<MappingEntry(TRUE, TestCaseMapping(id, Synced, CurrentHashOf(source)))>>) :
        id \in {Null, Id_MM_T1, Id_PROJ_T1}}

TitledInit ==
    /\ config \in Configs
    /\ hashPc = "idle"
    /\ hashTestA = IdleCall
    /\ hashTestB = IdleCall
    /\ fpA = Undefined
    /\ fpB = Undefined
    /\ dsCall = IdleCall
    /\ scanned = IdleCall
    /\ files = <<>>
    /\ nextFile = 1
    /\ fileResults = <<>>
    /\ scanResult = IdleCall
    /\ pc = "idle"
    /\ UtilIdle

\* scanFile, with the validate and detectSyncStatus calls it makes for the
\* file's test.
ScanTitledFile ==
    /\ scanned = IdleCall
    /\ \E source \in TitledSources :
          \E mappingFile \in TitledMappingFiles(source) :
              LET test == ParseTestFile(Path_a, source, ParserProjectKey(config)).value.tests[1]
                  mappingMap == CreateMappingMap(LoadMapping(Path_a, mappingFile).value)
                  recordOfTest == MappingFor(test, mappingMap)
                  currentHash == CalculateHash(test)
              IN /\ scanned' = [op |-> "scanFile", filePath |-> Path_a, source |-> source,
                                mappingFile |-> mappingFile,
                                outcome |-> ScanFile(Path_a, source, mappingFile, config)]
                 /\ vCall' = [op |-> "validate", test |-> test,
                              result |-> Validate(test, config)]
                 /\ dsCall' = [op |-> "detectSyncStatus", test |-> test,
                               mapping |-> recordOfTest, currentHash |-> currentHash,
                               status |-> DetectSyncStatus(test, recordOfTest, currentHash,
                                                           config)]
    /\ UNCHANGED <<config, hashPc, hashTestA, hashTestB, fpA, fpB, files, nextFile,
                   fileResults, scanResult, pc, tcm, updates, rt, invocations,
                   ioVars>>

TitledNext == ScanTitledFile

SpecTitled == TitledInit /\ [][TitledNext]_vars

-----------------------------------------------------------------------------
(* updateSyncStatus applied again and again to a fresh mapping. *)

UpdateStatuses == {Synced, NeedsUpdate, Conflict}

\* The hash argument: left out, the empty string or a digest.
UpdateHashes == {Undefined, <<>>, Sha256(S_a), Sha256(S_b)}

MappingInit ==
    /\ config = DefaultValidationConfig
    /\ hashPc = "idle"
    /\ hashTestA = IdleCall
    /\ hashTestB = IdleCall
    /\ fpA = Undefined
    /\ fpB = Undefined
    /\ dsCall = IdleCall
    /\ scanned = IdleCall
    /\ files = <<>>
    /\ nextFile = 1
    /\ fileResults = <<>>
    /\ scanResult = IdleCall
    /\ pc = "idle"
    /\ vCall = IdleCall
    /\ tcm = CreateTestCaseMapping(Path_a, Title_T1, Timestamp(0))
    /\ updates = <<>>
    /\ rt = IdleCall
    /\ invocations = <<>>
    /\ IoIdle

UpdateSyncStatusCall ==
    /\ Len(updates) < MaxUpdates
    /\ \E status \in UpdateStatuses, hash \in UpdateHashes :
          /\ tcm' = UpdateSyncStatus(tcm, status, hash, Timestamp(Len(updates) + 1))
          /\ updates' = Append(updates, [status |-> status, hash |-> hash])
    /\ UNCHANGED <<config, hashPc, hashTestA, hashTestB, fpA, fpB, dsCall, scanned,
                   files, nextFile, fileResults, scanResult, pc, vCall, rt, invocations,
                   ioVars>>

MappingNext == UpdateSyncStatusCall

SpecMapping == MappingInit /\ [][MappingNext]_vars

-----------------------------------------------------------------------------
(* One retry call, with the events of the event loop it waits for. *)

RetryOptionValues ==
    {RetryOptions(maxAttempts, initialDelay, maxDelay, backoffMultiplier, retryable) :
        maxAttempts \in 0..MaxAttempts,
        initialDelay \in {1, MaxDelay + 1},
        maxDelay \in {MaxDelay},
        backoffMultiplier \in {1, 2},
        retryable \in RetryableSets}

RetryInit ==
    /\ config = DefaultValidationConfig
    /\ hashPc = "idle"
    /\ hashTestA = IdleCall
    /\ hashTestB = IdleCall
    /\ fpA = Undefined
    /\ fpB = Undefined
    /\ dsCall = IdleCall
    /\ scanned = IdleCall
    /\ files = <<>>
    /\ nextFile = 1
    /\ fileResults = <<>>
    /\ scanResult = IdleCall
    /\ pc = "idle"
    /\ vCall = IdleCall
    /\ tcm = IdleCall
    /\ updates = <<>>
    /\ \E opts \in RetryOptionValues : rt = RetryFrame(opts)
    /\ invocations = <<>>
    /\ IoIdle

\* A mutant of StartAttempt: the loop tests its condition after the body, so
\* the first attempt is made whatever maxAttempts is.
StartAttemptDoWhile ==
    /\ rt.pc = "loop"
    /\ rt.attempt < rt.opts.maxAttempts \/ rt.attempt = 0
    /\ rt' = [rt EXCEPT !.attempt = @ + 1, !.pc = "awaiting"]
    /\ invocations' = Append(invocations, WithTimeout(Pending))
    /\ UNCHANGED <<scanVars, vCall, tcm, updates, ioVars>>

\* while (attempt < opts.maxAttempts) { attempt++; withTimeout(operation(), ...)
StartAttempt ==
    /\ rt.pc = "loop"
    /\ rt.attempt < rt.opts.maxAttempts
    /\ rt' = [rt EXCEPT !.attempt = @ + 1, !.pc = "awaiting"]
    /\ invocations' = Append(invocations, WithTimeout(Pending))
    /\ UNCHANGED <<scanVars, vCall, tcm, updates, ioVars>>

\* The loop is left without an attempt made: throw errors[errors.length - 1].
ThrowAfterLoop ==
    /\ rt.pc = "loop"
    /\ rt.attempt >= rt.opts.maxAttempts
    /\ rt' = [rt EXCEPT !.pc = "thrown",
                        !.result = Rejected(IF rt.errors = <<>> THEN Undefined
                                            ELSE rt.errors[Len(rt.errors)])]
    /\ UNCHANGED <<scanVars, vCall, tcm, updates, invocations, ioVars>>

\* The promise of some operation() call settles; the race of that call takes
\* the outcome unless it has settled already.
OperationSettles ==
    /\ rt.pc # "loop"
    /\ \E index \in 1..Len(invocations) :
          /\ invocations[index].operation = Pending
          /\ \E outcome \in {Fulfilled(index)} \cup
                             {Rejected(ErrorOf(kind, index)) :
                                 kind \in ErrorKinds \ {"timeout"}} :
                LET raced == RacedBy(index, rt.attempt)
                    settled == [invocations EXCEPT
                                   ![index].operation = outcome,
                                   ![index].events = Append(@, "operation")]
                IN invocations' =
                     IF settled[raced].race = Pending
                         THEN [settled EXCEPT ![raced].race = outcome]
                         ELSE settled
    /\ UNCHANGED <<scanVars, vCall, tcm, updates, rt, ioVars>>

\* The timer of some withTimeout call fires (timers of equal length fire in
\* the order they were set); the race of that call is rejected unless it has
\* settled already.
TimerFires ==
    /\ rt.pc # "loop"
    /\ \E index \in 1..Len(invocations) :
          /\ invocations[index].timer = "armed"
          /\ \A earlier \in 1..(index - 1) : invocations[earlier].timer = "fired"
          /\ LET raced == RacedBy(index, rt.attempt)
                 fired == [invocations EXCEPT
                              ![index].timer = "fired",
                              ![index].events = Append(@, "timer")]
             IN invocations' =
                  IF fired[raced].race = Pending
                      THEN [fired EXCEPT
                               ![raced].race = Rejected(ErrorOf("timeout", index))]
                      ELSE fired
    /\ UNCHANGED <<scanVars, vCall, tcm, updates, rt, ioVars>>

\* The await of the attempt resumes with a value: retry returns.
AttemptSucceeds ==
    /\ rt.pc = "awaiting"
    /\ invocations[rt.attempt].race.state = "fulfilled"
    /\ rt' = [rt EXCEPT !.pc = "returned",
                        !.result = [state |-> "fulfilled",
                                    value |-> invocations[rt.attempt].race.value,
                                    attempts |-> rt.attempt,
                                    errors |-> rt.errors]]
    /\ UNCHANGED <<scanVars, vCall, tcm, updates, invocations, ioVars>>

\* The await of the attempt resumes with an error: the catch clause.
AttemptFails ==
    /\ rt.pc = "awaiting"
    /\ invocations[rt.attempt].race.state = "rejected"
    /\ rt' = CatchBlock(rt, invocations[rt.attempt].race.error)
    /\ UNCHANGED <<scanVars, vCall, tcm, updates, invocations, ioVars>>

\* sleep(delay) is over: the next delay is computed and the loop goes on.
SleepEnds ==
    /\ rt.pc = "sleeping"
    /\ rt' = [rt EXCEPT !.delay = NextDelay(@, rt.opts), !.pc = "loop"]
    /\ UNCHANGED <<scanVars, vCall, tcm, updates, invocations, ioVars>>

RetryNext ==
    \/ StartAttempt
    \/ ThrowAfterLoop
    \/ OperationSettles
    \/ TimerFires
    \/ AttemptSucceeds
    \/ AttemptFails
    \/ SleepEnds

SpecRetry == RetryInit /\ [][RetryNext]_vars

\* What the event loop guarantees: a timer that was set fires, and a
\* continuation that can run does run. Nothing makes an operation settle.
RetryFairness ==
    /\ WF_vars(StartAttempt)
    /\ WF_vars(ThrowAfterLoop)
    /\ WF_vars(TimerFires)
    /\ WF_vars(AttemptSucceeds)
    /\ WF_vars(AttemptFails)
    /\ WF_vars(SleepEnds)

SpecRetryFair == RetryInit /\ [][RetryNext]_vars /\ RetryFairness

-----------------------------------------------------------------------------
(* MappingManager.loadMapping called on its own. *)

AllOf(fields) == {fields[i] : i \in 1..Len(fields)}

\* Entries that carry every required field, one per case ID.
CompleteEntries ==
    {JsonEntry("object", AllOf(RequiredFields), "object", AllOf(RequiredMetadataFields),
               TestCaseMapping(id, Synced, Null)) : id \in {Id_MM_T1, Id_MM_T2}}

\* Entries that lack one required field, have a metadata that lacks one or is
\* no object, or are no object themselves.
IncompleteEntries ==
    {JsonEntry("object", AllOf(RequiredFields) \ {f}, "object",
               AllOf(RequiredMetadataFields), TestCaseMapping(Id_MM_T1, Synced, Null)) :
        f \in AllOf(RequiredFields)}
    \cup {JsonEntry("object", AllOf(RequiredFields), "object",
                    AllOf(RequiredMetadataFields) \ {f},
                    TestCaseMapping(Id_MM_T1, Synced, Null)) :
            f \in AllOf(RequiredMetadataFields)}
    \cup {JsonEntry("object", AllOf(RequiredFields), kind, {},
                    TestCaseMapping(Id_MM_T1, Synced, Null)) : kind \in {"null", "string"}}
    \cup {JsonEntry(kind, {}, "undefined", {}, TestCaseMapping(Id_MM_T1, Synced, Null)) :
            kind \in {"null", "string", "array"}}

MappingDocuments ==
    {[exists |-> FALSE, content |-> "array", entries |-> <<>>]}
    \cup {[exists |-> TRUE, content |-> c, entries |-> <<>>] :
            c \in {"syntaxError", "nonArray"}}
    \cup {[exists |-> TRUE, content |-> "array", entries |-> entries] :
            entries \in SeqsUpTo(CompleteEntries \cup IncompleteEntries, MaxMappings)}

LoadMappingInit ==
    /\ config = DefaultValidationConfig
    /\ hashPc = "idle"
    /\ hashTestA = IdleCall
    /\ hashTestB = IdleCall
    /\ fpA = Undefined
    /\ fpB = Undefined
    /\ dsCall = IdleCall
    /\ scanned = IdleCall
    /\ files = <<>>
    /\ nextFile = 1
    /\ fileResults = <<>>
    /\ scanResult = IdleCall
    /\ pc = "idle"
    /\ UtilIdle

LoadMappingCall ==
    /\ lmCall = IdleCall
    /\ \E document \in MappingDocuments :
          lmCall' = [op |-> "loadMapping", document |-> document,
                     outcome |-> LoadMapping(Path_a, MappingFileOf(document))]
    /\ UNCHANGED <<scanVars, vCall, tcm, updates, rt, invocations, tasks, store, batch>>

LoadMappingNext == LoadMappingCall

SpecLoadMapping == LoadMappingInit /\ [][LoadMappingNext]_vars

-----------------------------------------------------------------------------
(* scanDirectory. *)

\* The files a directory can hold: a source and its mapping file.
\* The mapping files of a directory's file: none and, for a file of at most
\* one test, one whose record holds the current digest and one that is not JSON.
DirMappingFiles(source) ==
    {MissingMappingFile}
        \cup (IF Len(source.decls) <= 1
                THEN {MappingFile(TRUE, "array",
                                  <<MappingEntry(TRUE,
                                        TestCaseMapping(Id_MM_T1, Synced,
                                                        CurrentHashOf(source)))>>),
                      MappingFile(TRUE, "syntaxError", <<>>)}
                ELSE {})

DirFiles ==
    UNION {{[source |-> source, mappingFile |-> mappingFile] :
                mappingFile \in DirMappingFiles(source)} :
            source \in {UnreadableSource} \cup ReadableSources({Title_T1}, {S_a})}

Init ==
    /\ config = DefaultValidationConfig
    /\ hashPc = "idle"
    /\ hashTestA = IdleCall
    /\ hashTestB = IdleCall
    /\ fpA = Undefined
    /\ fpB = Undefined
    /\ dsCall = IdleCall
    /\ scanned = IdleCall
    /\ files \in SeqsUpTo(DirFiles, MaxFiles)
    /\ nextFile = 1
    /\ fileResults = <<>>
    /\ scanResult = IdleCall
    /\ pc = "scanning"
    /\ UtilIdle

\* One iteration of scanAllFiles' for-loop: scanFile, or the synthetic result
\* of the catch clause.
ScanNextFile ==
    /\ pc = "scanning"
    /\ nextFile <= Len(files)
    /\ LET filePath == Paths[nextFile]
           outcome == ScanFile(filePath, files[nextFile].source,
                               files[nextFile].mappingFile, config)
       IN fileResults' = Append(fileResults,
                                IF outcome.threw
                                    THEN CreateErrorFileResult(filePath, outcome.error)
                                    ELSE outcome.value)
    /\ nextFile' = nextFile + 1
    /\ UNCHANGED <<config, hashPc, hashTestA, hashTestB, fpA, fpB, dsCall, scanned,
                   files, scanResult, pc,
                   utilVars>>

\* The end of scanDirectory: calculateMetrics and the returned ScanResult
\* (scannedAt and duration, which are clock readings, left out).
ReturnScanResult ==
    /\ pc = "scanning"
    /\ nextFile > Len(files)
    /\ LET metrics == CalculateMetrics(fileResults)
       IN scanResult' =
            [summary |-> [totalFiles |-> Len(files),
                          totalTests |-> metrics.totalTests,
                          syncedTests |-> metrics.syncedTests,
                          unmappedTests |-> metrics.unmappedTests,
                          outOfSyncTests |-> metrics.outOfSyncTests,
                          validationErrors |-> metrics.validationErrors],
             metrics |-> [syncCoverage |-> metrics.syncCoverage,
                          documentationCompliance |-> metrics.documentationCompliance],
             fileResults |-> fileResults]
    /\ pc' = "done"
    /\ UNCHANGED <<config, hashPc, hashTestA, hashTestB, fpA, fpB, dsCall, scanned,
                   files, nextFile, fileResults,
                   utilVars>>

Next ==
    \/ ScanNextFile
    \/ ReturnScanResult

Spec == Init /\ [][Next]_vars

-----------------------------------------------------------------------------
(* scanFile calls on one Scanner, interleaved at their awaits. *)

\* Files of at most one test, with no mapping file, a current one or a broken one.
ConcurrentFiles ==
    {[source |-> UnreadableSource, mappingFile |-> MissingMappingFile]}
    \cup UNION {{[source |-> source, mappingFile |-> mappingFile] :
                    mappingFile \in DirMappingFiles(source)} :
                source \in {s \in ReadableSources({Title_T1}, {S_a}) : Len(s.decls) <= 1}}

\* A scanFile call that has not been made yet.
ReadyCall == [pc |-> "ready", parseResult |-> Null, outcome |-> Null]

\* One Scanner, its parser's Project empty, and the files to scan.
ConcurrentInit ==
    /\ config = DefaultValidationConfig
    /\ hashPc = "idle"
    /\ hashTestA = IdleCall
    /\ hashTestB = IdleCall
    /\ fpA = Undefined
    /\ fpB = Undefined
    /\ dsCall = IdleCall
    /\ scanned = IdleCall
    /\ files \in SeqsUpTo(ConcurrentFiles, MaxFiles)
    /\ nextFile = 1
    /\ fileResults = <<>>
    /\ scanResult = IdleCall
    /\ pc = "idle"
    /\ vCall = IdleCall
    /\ tcm = IdleCall
    /\ updates = <<>>
    /\ rt = IdleCall
    /\ invocations = <<>>
    /\ lmCall = IdleCall
    /\ tasks = [project |-> <<>>, calls |-> [i \in 1..Len(files) |-> ReadyCall]]
    /\ store = IdleCall
    /\ batch = IdleCall

\* scanFile(files[i]) is called and runs up to its await.
BeginScanFile ==
    /\ \E i \in 1..Len(files) :
          /\ tasks.calls[i].pc = "ready"
          /\ LET begun == ScanFileBegin(Paths[i], files[i].source, tasks.project, config)
             IN tasks' = [project |-> begun.project,
                          calls |-> [tasks.calls EXCEPT ![i] = begun.call]]
    /\ UNCHANGED <<scanVars, vCall, tcm, updates, rt, invocations, lmCall, store, batch>>

\* The await of some call resumes, in whatever order the reads complete.
ResumeScanFile ==
    /\ \E i \in 1..Len(files) :
          /\ tasks.calls[i].pc = "awaiting"
          /\ tasks' = [tasks EXCEPT
                          !.calls[i] = ScanFileResume(@, Paths[i], files[i].mappingFile,
                                                      tasks.project, config)]
    /\ UNCHANGED <<scanVars, vCall, tcm, updates, rt, invocations, lmCall, store, batch>>

ConcurrentNext ==
    \/ BeginScanFile
    \/ ResumeScanFile

SpecConcurrent == ConcurrentInit /\ [][ConcurrentNext]_vars

-----------------------------------------------------------------------------
(* scanFile's loop applied to a test and to the test declared otherwise. *)

\* Declarations that differ in title (hence case ID), kind, Playwright tags
\* and line only.
VariantDecls(titles, types, tagLists, lines) ==
    {TestDecl(title, type, tags, <<TestStep(S_a, MaxLine + 1)>>,
              <<TestStep(S_b, MaxLine + 2)>>, line) :
        title \in titles, type \in types, tags \in tagLists, line \in lines}

VariantJSDocs == {JSDocWith(S_a), JSDocWith(Undefined)}

\* The digests a record can hold: the one of the documented test, the one of
\* the undocumented test, and one of neither.
VariantHashes ==
    {CalculateHash(ParseTestCallExpression(
                       TestDecl(Title_T1, "test", <<>>, <<TestStep(S_a, MaxLine + 1)>>,
                                <<TestStep(S_b, MaxLine + 2)>>, 1), jsdoc, <<"M", "M">>)) :
        jsdoc \in VariantJSDocs}
    \cup {Sha256(S_b)}

VariantRecords ==
    {TestCaseMapping(id, Synced, hash) : id \in {Id_MM_T1, Id_MM_T2}, hash \in VariantHashes}

VariantInit ==
    /\ config = DefaultValidationConfig
    /\ hashPc = "declared"
    /\ \E decl \in VariantDecls({Title_T1, Title_T2}, {"test"}, {<<>>}, {1}),
          jsdoc \in VariantJSDocs :
          hashTestA = [decl |-> decl, jsdoc |-> jsdoc]
    /\ hashTestB = IdleCall
    /\ fpA = Undefined
    /\ fpB = Undefined
    /\ dsCall = IdleCall
    /\ scanned = IdleCall
    /\ files = <<>>
    /\ nextFile = 1
    /\ fileResults = <<>>
    /\ scanResult = IdleCall
    /\ pc = "idle"
    /\ UtilIdle

\* The declaration is scanned as it is and with another title, kind, tags
\* and line, against one mapping document.
ScanVariant ==
    /\ hashPc = "declared"
    /\ \E variant \in VariantDecls({Title_T1, Title_T1_Renamed, Title_T2, Title_LoginWorks},
                                   {"test", "test.skip", "test.fixme"},
                                   {<<>>, <<"@smoke">>}, 1..MaxLine),
          records \in SeqsUpTo(VariantRecords, MaxMappings) :
          LET testA == ParseTestCallExpression(hashTestA.decl, hashTestA.jsdoc,
                                               ParserProjectKey(config))
              testB == ParseTestCallExpression(variant, hashTestA.jsdoc,
                                               ParserProjectKey(config))
              mappingMap == CreateMappingMap(records)
          IN /\ hashTestB' = [decl |-> variant, jsdoc |-> hashTestA.jsdoc]
             /\ fpA' = CalculateHash(testA)
             /\ fpB' = CalculateHash(testB)
             /\ dsCall' = [op |-> "scanVariant", records |-> records,
                           testA |-> testA, testB |-> testB,
                           statusA |-> SyncStatusInFile(testA, mappingMap, config),
                           statusB |-> SyncStatusInFile(testB, mappingMap, config)]
    /\ hashPc' = "scanned"
    /\ UNCHANGED <<config, hashTestA, scanned, files, nextFile, fileResults, scanResult,
                   pc, utilVars>>

VariantNext == ScanVariant

SpecVariant == VariantInit /\ [][VariantNext]_vars

-----------------------------------------------------------------------------
(* Claims about detectSyncStatus. *)

Called == dsCall # IdleCall

CallHasErrors == HasValidationErrors(Validate(dsCall.test, config))

CallHasCaseId == Truthy(dsCall.test.testCaseId)

CallHasMapping == dsCall.mapping # NullMapping

\* C1: detectSyncStatus returns Unsynced whenever validation of the test has an
\* error-severity issue, whatever the mapping and the digests.
C1_ErrorsGiveUnsynced ==
    (Called /\ CallHasErrors) => dsCall.status = Unsynced

C1_Witness ==
    /\ Called
    /\ CallHasErrors
    /\ CallHasCaseId
    /\ CallHasMapping
    /\ dsCall.mapping.syncStatus = Synced
    /\ dsCall.mapping.lastSyncedHash = dsCall.currentHash
    /\ dsCall.status = Unsynced

\* C2: detectSyncStatus returns Synced exactly when validation has no error, the
\* test has a case ID and a mapping record is given for it, and the record's
\* lastSyncedHash equals the digest.
C2_SyncedIff ==
    Called =>
        (dsCall.status = Synced <=>
            /\ ~CallHasErrors
            /\ CallHasCaseId
            /\ CallHasMapping
            /\ dsCall.mapping.lastSyncedHash = dsCall.currentHash)

C2_Witness ==
    /\ Called
    /\ dsCall.status = Synced
    /\ dsCall.mapping.lastSyncedHash = dsCall.currentHash

\* C3 as stated: detectSyncStatus returns NeedsUpdate exactly when validation
\* passes, a mapping is given and its lastSyncedHash differs from the digest.
C3_NeedsUpdateIffMappingDiffers ==
    Called =>
        (dsCall.status = NeedsUpdate <=>
            /\ ~CallHasErrors
            /\ CallHasMapping
            /\ dsCall.mapping.lastSyncedHash # dsCall.currentHash)

\* C3 as amended: detectSyncStatus returns NeedsUpdate exactly when validation
\* passes, the test has a case ID, a mapping is given and its lastSyncedHash
\* differs from the digest.
C3_NeedsUpdateIff ==
    Called =>
        (dsCall.status = NeedsUpdate <=>
            /\ ~CallHasErrors
            /\ CallHasCaseId
            /\ CallHasMapping
            /\ dsCall.mapping.lastSyncedHash # dsCall.currentHash)

C3_Witness ==
    /\ Called
    /\ dsCall.status = NeedsUpdate
    /\ CallHasCaseId
    /\ dsCall.mapping.lastSyncedHash # dsCall.currentHash

-----------------------------------------------------------------------------
(* Claims about calculateHash. *)

DistinctLines(steps) ==
    \A i, j \in 1..Len(steps) : steps[i].lineNumber = steps[j].lineNumber => i = j

\* C8 as stated: every reordering of the in-memory actionSteps (or
\* verificationSteps) list leaves the fingerprint unchanged.
C8_ReorderingKeepsHash ==
    hashPc \in {"permutedActions", "permutedVerifications"} => fpA = fpB

\* C8 as amended: every reordering of a step list whose steps have pairwise
\* distinct line numbers leaves the fingerprint unchanged.
C8_ReorderingOfDistinctLinesKeepsHash ==
    /\ (hashPc = "permutedActions" /\ DistinctLines(hashTestA.actionSteps))
          => fpA = fpB
    /\ (hashPc = "permutedVerifications" /\ DistinctLines(hashTestA.verificationSteps))
          => fpA = fpB

C8_Witness ==
    /\ hashPc = "permutedActions"
    /\ DistinctLines(hashTestA.actionSteps)
    /\ Len(hashTestA.actionSteps) >= 2
    /\ hashTestA.actionSteps[1].text # hashTestA.actionSteps[2].text
    /\ hashTestB.actionSteps # hashTestA.actionSteps
    /\ fpA = fpB

\* The text without its leading and trailing whitespace, defined directly.
WithoutOuterWhitespace(s) ==
    LET inner == {i \in 1..Len(s) : s[i] \notin WhiteSpace}
    IN IF inner = {} THEN <<>>
       ELSE SubSeq(s, CHOOSE i \in inner : \A j \in inner : i <= j,
                      CHOOSE i \in inner : \A j \in inner : i >= j)

SameStrippedTexts(a, b) ==
    \A i \in 1..Len(a) : WithoutOuterWhitespace(a[i].text) = WithoutOuterWhitespace(b[i].text)

\* C9: two tests that differ only in the text of one step have equal
\* fingerprints exactly when the two texts are equal once leading and trailing
\* whitespace is removed.
C9_EditChangesHashIffStrippedTextDiffers ==
    hashPc = "edited" =>
        (fpA = fpB <=>
            /\ SameStrippedTexts(hashTestA.actionSteps, hashTestB.actionSteps)
            /\ SameStrippedTexts(hashTestA.verificationSteps, hashTestB.verificationSteps))

\* Padding is ignored and an interior run of whitespace is not.
C9_Witness ==
    /\ hashPc = "edited"
    /\ Len(hashTestA.actionSteps) >= 2
    /\ \/ /\ hashTestA.actionSteps[1].text = S_a
          /\ hashTestB.actionSteps[1].text = S_a_padded
          /\ fpA = fpB
       \/ /\ hashTestA.actionSteps[1].text = S_a_b
          /\ hashTestB.actionSteps[1].text = S_a__b
          /\ fpA # fpB

\* The canonical structure of a test: per section whether it is present and
\* its trimmed texts, the steps in line order.
CanonicalStructure(test) ==
    LET tags == test.jsdocTags
    IN [objective |-> IF Truthy(tags.objective) THEN <<Trim(tags.objective)>> ELSE <<>>,
        hasPrecondition |->
            \/ tags.precondition.kind = "array"
            \/ tags.precondition.kind = "string" /\ tags.precondition.items[1] # <<>>,
        preconditions |-> SeqMap(Trim, tags.precondition.items),
        actions |-> SeqMap(StepText, SortSteps(test.actionSteps)),
        verifications |-> SeqMap(StepText, SortSteps(test.verificationSteps)),
        knownIssue |-> IF Truthy(tags.knownIssue) THEN <<Trim(tags.knownIssue)>> ELSE <<>>]

\* C10: two tests whose canonical structures differ have different canonical
\* strings.
C10_CanonicalStringUnambiguous ==
    (hashPc = "pair" /\ CanonicalStructure(hashTestA) # CanonicalStructure(hashTestB))
        => NormalizedContent(hashTestA) # NormalizedContent(hashTestB)

-----------------------------------------------------------------------------
(* Claims about scanDirectory. *)

\* C4: syncCoverage and documentationCompliance of every returned ScanResult are
\* 0 when totalTests is 0 and otherwise lie in 0..100.
C4_MetricsArePercentages ==
    pc = "done" =>
        /\ scanResult.summary.totalTests = 0 =>
              /\ scanResult.metrics.syncCoverage = 0
              /\ scanResult.metrics.documentationCompliance = 0
        /\ scanResult.metrics.syncCoverage \in 0..100
        /\ scanResult.metrics.documentationCompliance \in 0..100

FileOutcome(i) ==
    ScanFile(Paths[i], files[i].source, files[i].mappingFile, config)

\* The result the claim gives a file whose scan throws.
FailedFileResult(i) ==
    [filePath |-> Paths[i], testCount |-> 0, syncedCount |-> 0, unmappedCount |-> 0,
     outOfSyncCount |-> 0, validationErrorCount |-> 1,
     issues |-> <<[testTitle |-> "File Scan Error", syncStatus |-> Unsynced,
                   message |-> [text |-> FileOutcome(i).error.text,
                                parts |-> <<FileOutcome(i).error.arg>>]]>>]

\* C5: scanDirectory returns one file result per enumerated file, in
\* enumeration order; a file whose scan throws gets the synthetic result
\* (testCount 0, validationErrorCount 1, one issue with the error message) and
\* every other file gets what scanFile returns for it.
C5_OneResultPerFile ==
    /\ Len(fileResults) = nextFile - 1
    /\ \A i \in 1..Len(fileResults) :
          fileResults[i] = IF FileOutcome(i).threw THEN FailedFileResult(i)
                           ELSE FileOutcome(i).value
    /\ pc = "done" =>
          /\ Len(fileResults) = Len(files)
          /\ scanResult.fileResults = fileResults
          /\ scanResult.summary.totalFiles = Len(files)

C5_Witness ==
    /\ pc = "done"
    /\ Len(files) >= 2
    /\ FileOutcome(1).threw
    /\ ~FileOutcome(2).threw
    /\ Len(scanResult.fileResults) = Len(files)
    /\ scanResult.fileResults[1].validationErrorCount = 1
    /\ scanResult.fileResults[2].testCount >= 1

-----------------------------------------------------------------------------
(* Claims about scanFile. *)

FileScanned == scanned # IdleCall /\ ~scanned.outcome.threw

ScannedResult == scanned.outcome.value

ScannedTests ==
    [i \in 1..Len(scanned.source.decls) |->
        ParseTestCallExpression(scanned.source.decls[i], scanned.source.jsdoc,
                                ParserProjectKey(config))]

ScannedRecords ==
    [i \in 1..Len(scanned.mappingFile.entries) |-> scanned.mappingFile.entries[i].record]

\* C6: in every file result of scanFile the four bucket counts add up to
\* testCount.
C6_BucketsAddUp ==
    FileScanned =>
        ScannedResult.syncedCount + ScannedResult.unmappedCount
            + ScannedResult.outOfSyncCount + ScannedResult.validationErrorCount
          = ScannedResult.testCount

C6_Witness ==
    /\ FileScanned
    /\ ScannedResult.testCount = 2
    /\ ScannedResult.outOfSyncCount = 1
    /\ ScannedResult.validationErrorCount = 1

\* The positions of the document's records for the test's case ID (none when
\* the test has no case ID).
RecordsOf(test) ==
    {i \in 1..Len(ScannedRecords) :
        Truthy(test.testCaseId) /\ ScannedRecords[i].testCaseId = test.testCaseId}

\* The record of the test's case ID: the last one of the document.
RecordOf(test) ==
    ScannedRecords[CHOOSE i \in RecordsOf(test) : \A j \in RecordsOf(test) : j <= i]

\* The bucket the claim gives a test.
BucketOf(test) ==
    IF \E i \in 1..Len(ValidateIssues(test, config)) :
            ValidateIssues(test, config)[i].severity = "error"
        THEN "validation-error"
    ELSE IF RecordsOf(test) = {} THEN "unmapped"
    ELSE IF RecordOf(test).lastSyncedHash # CalculateHash(test) THEN "out-of-sync"
    ELSE "synced"

BucketCount(bucket) ==
    Cardinality({i \in 1..Len(ScannedTests) : BucketOf(ScannedTests[i]) = bucket})

BucketMessage(bucket) ==
    IF bucket = "validation-error" THEN "Validation failed: "
    ELSE IF bucket = "unmapped" THEN "Test is not mapped to a TMS test case"
    ELSE "Test content has changed since last sync"

BucketStatus(bucket) == IF bucket = "out-of-sync" THEN NeedsUpdate ELSE Unsynced

\* The tests that are not synced, in file order.
ReportedTests == SelectSeq(ScannedTests, LAMBDA t : BucketOf(t) # "synced")

\* C7: scanFile counts each test in the bucket its validation, its case ID, the
\* file's mapping document and the recomputed digest determine, and reports
\* each test that is not synced with the bucket's message.
C7_BucketsAsClaimed ==
    FileScanned =>
        /\ ScannedResult.validationErrorCount = BucketCount("validation-error")
        /\ ScannedResult.unmappedCount = BucketCount("unmapped")
        /\ ScannedResult.outOfSyncCount = BucketCount("out-of-sync")
        /\ ScannedResult.syncedCount = BucketCount("synced")
        /\ Len(ScannedResult.issues) = Len(ReportedTests)
        /\ \A i \in 1..Len(ReportedTests) :
              /\ ScannedResult.issues[i].testTitle = ReportedTests[i].title
              /\ ScannedResult.issues[i].syncStatus
                    = BucketStatus(BucketOf(ReportedTests[i]))
              /\ ScannedResult.issues[i].message.text
                    = BucketMessage(BucketOf(ReportedTests[i]))

C7_Witness ==
    /\ FileScanned
    /\ ScannedResult.testCount = 2
    /\ ScannedResult.outOfSyncCount = 1
    /\ ScannedResult.unmappedCount = 1
    /\ ScannedResult.issues[1].message.text = "Test content has changed since last sync"
    /\ Len(ScannedRecords) = 2

-----------------------------------------------------------------------------
(* Claims about absent sections. *)

\* A test has no such section: no objective, zero preconditions, zero steps of
\* the kind, no knownIssue.
SectionAbsent(test, section) ==
    CASE section = "objective" -> ~Truthy(test.jsdocTags.objective)
      [] section = "precondition" ->
            \/ Len(test.jsdocTags.precondition.items) = 0
            \/ test.jsdocTags.precondition = PreconditionString(<<>>)
      [] section = "actions" -> Len(test.actionSteps) = 0
      [] section = "verifications" -> Len(test.verificationSteps) = 0
      [] section = "knownIssue" -> ~Truthy(test.jsdocTags.knownIssue)

SectionLabel(section) ==
    CASE section = "objective" -> L_objective
      [] section = "precondition" -> L_precondition
      [] section = "actions" -> L_actions
      [] section = "verifications" -> L_verifications
      [] section = "knownIssue" -> L_knownIssue

\* C11: a section that a test does not have puts no part under its label in
\* the hashed string, and a test that has a section gets another fingerprint
\* than the same test less that section.
C11_AbsentSectionContributesNothing ==
    hashPc = "sectionRemoved" =>
        /\ \A test \in {hashTestA, hashTestB}, section \in Sections :
              SectionAbsent(test, section) =>
                  \A i \in 1..Len(CanonicalParts(test)) :
                      ~IsPrefix(SectionLabel(section), CanonicalParts(test)[i])
        /\ \A section \in Sections :
              (/\ hashTestB = WithoutSection(hashTestA, section)
               /\ ~SectionAbsent(hashTestA, section)) => fpA # fpB

-----------------------------------------------------------------------------
(* Claims about Validator.validate. *)

Validated == vCall # IdleCall

\* The project key the validator checks case IDs against.
KeyOf(cfg) == IF cfg.projectKey = <<>> THEN <<"M", "M">> ELSE cfg.projectKey

\* id is KEY-T followed by one digit or more.
WellFormedCaseId(id, key) ==
    \E n \in 1..Len(id) :
        /\ Len(id) = Len(key) + 2 + n
        /\ SubSeq(id, 1, Len(key) + 2) = key \o <<"-", "T">>
        /\ \A i \in (Len(key) + 3)..Len(id) : id[i] \in Digit

Absent(s) == s = Undefined \/ s = Null \/ s = <<>>

\* The rules of the validator that fire for a test, each by its category.
ErrorRulesFired(test, cfg) ==
    {c \in {"documentation", "action-steps", "verification-steps", "test-case-id"} :
        \/ /\ c = "documentation"
           /\ cfg.requiredTags \cap {"objective", "@objective"} # {}
           /\ Absent(test.jsdocTags.objective)
        \/ c = "action-steps" /\ cfg.enforceActionComments /\ test.actionSteps = <<>>
        \/ /\ c = "verification-steps"
           /\ cfg.enforceVerificationComments
           /\ test.verificationSteps = <<>>
        \/ /\ c = "test-case-id"
           /\ ~Absent(test.testCaseId)
           /\ ~WellFormedCaseId(test.testCaseId, KeyOf(cfg))}

WarningRulesFired(test, cfg) ==
    {c \in {"test-case-id", "test-title"} :
        \/ c = "test-case-id" /\ Absent(test.testCaseId)
        \/ c = "test-title" /\ Len(TitleWithoutId(test.title)) < TitleMinLength}

IssuesOf(result, severity) ==
    {result.issues[i].category :
        i \in {j \in 1..Len(result.issues) : result.issues[j].severity = severity}}

\* C12: validate reports one issue for every rule that fires, errors and
\* warnings alike, and isValid is true exactly when no error rule fires.
C12_ValidIffNoErrorRuleFires ==
    Validated =>
        /\ vCall.result.isValid <=> ErrorRulesFired(vCall.test, config) = {}
        /\ IssuesOf(vCall.result, "error") = ErrorRulesFired(vCall.test, config)
        /\ IssuesOf(vCall.result, "warning") = WarningRulesFired(vCall.test, config)
        /\ Len(vCall.result.issues)
              = Cardinality(ErrorRulesFired(vCall.test, config))
                  + Cardinality(WarningRulesFired(vCall.test, config))

\* A test on which every error rule and the title rule fire is validated.
C12_Witness ==
    /\ Validated
    /\ Cardinality(ErrorRulesFired(vCall.test, config)) = 4
    /\ WarningRulesFired(vCall.test, config) = {"test-title"}
    /\ ~vCall.result.isValid
    /\ Len(vCall.result.issues) = 5

-----------------------------------------------------------------------------
(* Claims about titles that carry another project's prefix. *)

\* The title starts with a case ID of a project other than MM.
HasForeignPrefix(title) ==
    /\ TitleWithoutId(title) # title
    /\ ~IsPrefix(<<"M", "M", "-", "T">>, title)

IssuesWith(result, category, severity) ==
    {i \in 1..Len(result.issues) :
        result.issues[i].category = category /\ result.issues[i].severity = severity}

-----------------------------------------------------------------------------
(* Claims about updateSyncStatus. *)

\* The calls made so far that set Synced.
SyncedUpdates == {i \in 1..Len(updates) : updates[i].status = Synced}

\* The calls made so far that passed a hash.
HashedUpdates == {i \in 1..Len(updates) : updates[i].hash # Undefined}

\* C14: lastSyncedAt is non-null exactly when some call so far set Synced and
\* passed a hash.
C14_SyncedAtIffSyncedWithHash ==
    (tcm # IdleCall) =>
        (tcm.lastSyncedAt # Null <=> SyncedUpdates \cap HashedUpdates # {})

\* C15: metadata.syncCount is the number of calls so far that set Synced.
C15_SyncCountCountsSyncedUpdates ==
    (tcm # IdleCall) => tcm.metadata.syncCount = Cardinality(SyncedUpdates)

\* Synced updates and other updates have been made, in turn.
C15_Witness ==
    /\ Len(updates) = 3
    /\ updates[1].status = Synced
    /\ updates[2].status = Conflict
    /\ updates[3].status = Synced
    /\ tcm.metadata.syncCount = 2

\* C16: lastSyncedHash is the hash of the latest call that passed one, and
\* null when no call did.
C16_HashOfLatestHashedUpdate ==
    (tcm # IdleCall) =>
        tcm.lastSyncedHash =
            IF HashedUpdates = {} THEN Null
            ELSE updates[CHOOSE i \in HashedUpdates : \A j \in HashedUpdates : j <= i].hash

\* A call without a hash follows a call with one, and a later call replaces it.
C16_Witness ==
    /\ Len(updates) = 3
    /\ updates[1].hash = Sha256(S_a)
    /\ updates[2].hash = Undefined
    /\ updates[3].hash = Sha256(S_b)
    /\ tcm.lastSyncedHash = Sha256(S_b)

-----------------------------------------------------------------------------
(* Claims about retry. *)

Retrying == rt # IdleCall

\* The attempts that have ended, and how: the settled races.
EndedAttempts == {i \in 1..Len(invocations) : invocations[i].race # Pending}

\* C17: retry invokes the operation at most maxAttempts times, never again
\* after an attempt that succeeded, and a retry that is rejected after its
\* attempts failed is rejected with the error of the last attempt.
C17_AtMostMaxAttemptsAndLastError ==
    Retrying =>
        /\ Len(invocations) <= rt.opts.maxAttempts
        /\ Len(invocations) = rt.attempt
        /\ \A i \in 1..(Len(invocations) - 1) : invocations[i].race.state = "rejected"
        /\ (rt.pc = "returned") =>
              /\ invocations[rt.attempt].race.state = "fulfilled"
              /\ rt.result.value = invocations[rt.attempt].race.value
        /\ (rt.pc = "thrown" /\ Len(invocations) > 0) =>
              /\ \A i \in 1..Len(invocations) : invocations[i].race.state = "rejected"
              /\ rt.result = Rejected(invocations[Len(invocations)].race.error)

\* Every one of three attempts has failed with a retryable error and retry is
\* rejected.
C17_Witness ==
    /\ Retrying
    /\ rt.opts.maxAttempts = 3
    /\ Len(invocations) = 3
    /\ rt.pc = "thrown"
    /\ rt.result = Rejected(ErrorOf("network", 3))
    /\ rt.errors[1] = ErrorOf("timeout", 1)

\* C18: each delay slept is at most maxDelay, and the k-th is
\* min(initialDelay * backoffMultiplier^(k-1), maxDelay).
C18_DelaysAreCappedBackoff ==
    Retrying =>
        \A k \in 1..Len(rt.slept) :
            /\ rt.slept[k] <= rt.opts.maxDelay
            /\ rt.slept[k] = MathMin(rt.opts.initialDelay * rt.opts.backoffMultiplier ^ (k - 1),
                                    rt.opts.maxDelay)

\* What the first event of an invocation makes of its attempt.
OutcomeOfFirstEvent(index) ==
    LET invocation == invocations[index]
    IN IF invocation.events = <<>> THEN Pending
       ELSE IF invocation.events[1] = "timer" THEN Rejected(ErrorOf("timeout", index))
       ELSE invocation.operation

\* C19: an attempt ends with the first of its operation settling and its own
\* timer firing, takes that event's outcome, and retry sees that outcome;
\* no event of another attempt changes it.
C19_AttemptEndsAtItsFirstEvent ==
    Retrying =>
        /\ \A i \in 1..Len(invocations) : invocations[i].race = OutcomeOfFirstEvent(i)
        /\ \A k \in 1..Len(rt.errors) : Rejected(rt.errors[k]) = OutcomeOfFirstEvent(k)
        /\ (rt.pc = "returned") =>
              OutcomeOfFirstEvent(rt.attempt) = Fulfilled(rt.result.value)

\* The first attempt is ended by its operation; its timer fires while the
\* second attempt is awaited, and the second attempt succeeds all the same.
C19_Witness ==
    /\ Retrying
    /\ Len(invocations) = 2
    /\ invocations[1].events = <<"operation", "timer">>
    /\ invocations[2].events = <<"operation">>
    /\ invocations[2].timer = "armed"
    /\ rt.pc = "returned"
    /\ rt.result.value = 2

\* C20: at no moment are two operation() promises of one retry call pending.
C20_OneInvocationInProgress ==
    Retrying =>
        Cardinality({i \in 1..Len(invocations) : invocations[i].operation = Pending}) <= 1

-----------------------------------------------------------------------------
(* Claims about MappingManager.loadMapping. *)

\* The entry is an object with every required field and a metadata object
\* with every required metadata field.
CompleteEntry(entry) ==
    /\ entry.kind = "object"
    /\ {"id", "testFilePath", "testTitle", "syncStatus", "metadata"} \subseteq entry.fields
    /\ entry.metadata.kind = "object"
    /\ {"createdAt", "updatedAt", "createdBy", "syncCount"} \subseteq entry.metadata.fields

\* C21: loadMapping returns the empty list for a missing file, throws for
\* invalid JSON, for a value that is no array and for an array with an entry
\* that lacks a required field, and otherwise returns every entry in order.
C21_LoadMappingAllOrError ==
    (lmCall # IdleCall) =>
        LET document == lmCall.document
            wellFormed ==
                /\ document.content = "array"
                /\ \A i \in 1..Len(document.entries) : CompleteEntry(document.entries[i])
        IN /\ ~document.exists => lmCall.outcome = Returned(<<>>)
           /\ (document.exists /\ ~wellFormed) => lmCall.outcome.threw
           /\ (document.exists /\ wellFormed) =>
                 lmCall.outcome =
                     Returned([i \in 1..Len(document.entries) |-> document.entries[i].record])

\* A document whose first entry is complete and whose second lacks
\* metadata.syncCount is loaded.
C21_Witness ==
    /\ lmCall # IdleCall
    /\ Len(lmCall.document.entries) = 2
    /\ CompleteEntry(lmCall.document.entries[1])
    /\ lmCall.document.entries[2].kind = "object"
    /\ "syncCount" \notin lmCall.document.entries[2].metadata.fields
    /\ "createdAt" \in lmCall.document.entries[2].metadata.fields
    /\ lmCall.outcome.threw

-----------------------------------------------------------------------------
(* Claims about concurrent scans. *)

ScanningConcurrently == tasks # <<>>

SettledTasks == {i \in 1..Len(tasks.calls) : tasks.calls[i].pc = "settled"}

\* C22: whatever the interleaving, a scanFile call settles with the outcome
\* that scanning its file alone gives.
C22_ConcurrentScanAsSequential ==
    ScanningConcurrently =>
        \A i \in SettledTasks :
            tasks.calls[i].outcome =
                ScanFile(Paths[i], files[i].source, files[i].mappingFile, config)

\* Two calls are in flight at once: the second was begun while the first
\* awaited, and the first has settled with its test counted.
C22_Witness ==
    /\ ScanningConcurrently
    /\ Len(tasks.calls) = 2
    /\ tasks.calls[1].pc = "settled"
    /\ tasks.calls[2].pc = "awaiting"
    /\ tasks.project[1].filePath = Path_a
    /\ ~tasks.calls[1].outcome.threw
    /\ tasks.calls[1].outcome.value.testCount = 1
    /\ tasks.calls[2].parseResult.totalTests = 0

-----------------------------------------------------------------------------
(* Claims about the failures retry retries. *)

\* retry was called with DEFAULT_RETRY_OPTIONS.isRetryable.
DefaultIsRetryable == Retrying /\ rt.opts.retryable = DefaultRetryable

\* The failure ended retry at once: it is the last error collected, retry is
\* rejected with it, and since it was caught nothing was slept (sleep and
\* onRetry go together) and the operation was not invoked again.
RejectedAtOnceWith(k) ==
    /\ k = Len(rt.errors)
    /\ rt.pc = "thrown"
    /\ rt.result = Rejected(rt.errors[k])
    /\ Len(rt.slept) = k - 1
    /\ Len(invocations) = k

\* C23: a further attempt is made only after a failure that isRetryable
\* keeps, which by default is a network error or a TMS error with status 429
\* or at least 500; a failure it does not keep rejects retry with that error
\* at once, with no sleep, no onRetry and no further invocation.
C23_RetriesOnlyRetryableFailures ==
    Retrying =>
        /\ Len(rt.slept) <= Len(rt.errors)
        /\ rt.attempt <= Len(rt.slept) + 1
        /\ \A k \in 1..Len(rt.errors) :
              rt.errors[k].kind \notin rt.opts.retryable => RejectedAtOnceWith(k)
        /\ DefaultIsRetryable =>
              \A k \in 1..Len(rt.slept) :
                 \/ rt.errors[k].kind = "network"
                 \/ /\ rt.errors[k].kind \in TMSErrorKinds
                    /\ StatusCode(rt.errors[k].kind) >= 500
                          \/ StatusCode(rt.errors[k].kind) = 429

\* With the default classifier and three attempts allowed, a 500 is retried
\* and the 404 that follows ends retry after two attempts.
C23_Witness ==
    /\ DefaultIsRetryable
    /\ rt.opts.maxAttempts = 3
    /\ rt.errors = <<ErrorOf("tms500", 1), ErrorOf("tms404", 2)>>
    /\ rt.pc = "thrown"
    /\ Len(invocations) = 2

\* C25: every retry call eventually settles, whether or not any operation
\* promise ever settles.
C25_RetryEventuallySettles == <>(rt.pc \in {"returned", "thrown"})

\* retry has settled after three attempts although no operation promise has.
C25_Witness ==
    /\ Retrying
    /\ rt.pc = "thrown"
    /\ Len(invocations) = 3
    /\ \A i \in 1..Len(invocations) : invocations[i].operation = Pending

\* C26: with the default classifier an attempt that ends by timeout is the
\* last one: retry is rejected with the timeout error, whatever attempts remain.
C26_DefaultDoesNotRetryTimeout ==
    DefaultIsRetryable =>
        \A k \in 1..Len(rt.errors) :
            rt.errors[k].kind = "timeout" => RejectedAtOnceWith(k)

\* The first of three allowed attempts timed out and retry is rejected.
C26_Witness ==
    /\ DefaultIsRetryable
    /\ rt.opts.maxAttempts = 3
    /\ rt.errors = <<ErrorOf("timeout", 1)>>
    /\ rt.result = Rejected(ErrorOf("timeout", 1))
    /\ Len(invocations) = 1

-----------------------------------------------------------------------------
(* Claims about MappingManager.saveMapping. *)

Saving == store # IdleCall

\* C24: a loadMapping that runs while saveMapping writes the same path
\* returns the previous document in full or the new document in full, as if
\* the file had been replaced in one step.
C24_SaveMappingIsAtomic ==
    (Saving /\ store.load = "settled") =>
        \/ store.outcome = LoadMapping(Path_a, ReadMappingFile(store.previous))
        \/ store.outcome = Returned(store.mappings)

-----------------------------------------------------------------------------
(* Claims about documents that hold a case ID more than once. *)

\* The records of the document that the claim lets scanFile use: those with a
\* case ID that no later record of the document carries.
LastRecords ==
    SelectSeq([i \in 1..Len(ScannedRecords) |->
                  [record |-> ScannedRecords[i],
                   used |-> /\ ScannedRecords[i].testCaseId \notin {Null, Undefined, <<>>}
                            /\ \A j \in (i + 1)..Len(ScannedRecords) :
                                  ScannedRecords[j].testCaseId
                                      # ScannedRecords[i].testCaseId]],
              LAMBDA r : r.used)

LastRecordsFile ==
    MappingFile(TRUE, "array",
                [i \in 1..Len(LastRecords) |-> MappingEntry(TRUE, LastRecords[i].record)])

\* C29: scanFile gives the result it gives for the document cut down to the
\* last record of each case ID, the records without a case ID left out.
C29_LastRecordOfCaseIdWins ==
    (FileScanned /\ scanned.mappingFile.exists) =>
        ScannedResult
            = ScanFile(scanned.filePath, scanned.source, LastRecordsFile, config).value

\* A test whose case ID has two records, the first without and the last with
\* the current digest, is synced.
C29_Witness ==
    /\ FileScanned
    /\ Len(ScannedRecords) = 2
    /\ ScannedRecords[1] = TestCaseMapping(Id_MM_T1, Synced, Null)
    /\ ScannedRecords[2].testCaseId = Id_MM_T1
    /\ ScannedRecords[2].lastSyncedHash # Null
    /\ ScannedResult.testCount = 1
    /\ ScannedResult.syncedCount = 1

-----------------------------------------------------------------------------
(* Claims about retryBatch. *)

BatchSettled == batch # IdleCall /\ batch.pc = "settled"

\* The entry the claim gives the index-th item.
ClaimedEntry(index) ==
    IF batch.results[index].state = "fulfilled"
        THEN BatchEntry(batch.items[index], batch.results[index].value, Null)
        ELSE BatchEntry(batch.items[index], Null, AsError(batch.results[index].error))

\* C28: retryBatch resolves, whatever the items and whichever operations
\* fail, with one entry per item in item order: the value of the item's
\* operation, or null and the error once its retries are exhausted.
C28_BatchResolvesWithEntryPerItem ==
    BatchSettled =>
        /\ ~batch.outcome.threw
        /\ Len(batch.outcome.value) = Len(batch.items)
        /\ \A i \in 1..Len(batch.items) : batch.outcome.value[i] = ClaimedEntry(i)

-----------------------------------------------------------------------------
(* Claims about the fields calculateHash leaves out. *)

VariantScanned == hashPc = "scanned"

\* C30 as stated: a test and the test with another title, case ID, kind,
\* Playwright tags or line have the same fingerprint, and if the one is
\* Synced the other is not NeedsUpdate.
C30_OtherFieldsNeverNeedUpdate ==
    VariantScanned =>
        /\ fpA = fpB
        /\ dsCall.statusA = Synced => dsCall.statusB # NeedsUpdate

\* C30 as amended: the fingerprints are the same, and if the one is Synced
\* the other is not NeedsUpdate provided it carries the same case ID or
\* none, so that no other record is consulted.
C30_OtherFieldsKeepHashAndRecord ==
    VariantScanned =>
        /\ fpA = fpB
        /\ (/\ dsCall.statusA = Synced
            /\ dsCall.testB.testCaseId \in {dsCall.testA.testCaseId, Undefined})
              => dsCall.statusB \in {Synced, Unsynced}
        /\ (/\ dsCall.statusA = Synced
            /\ dsCall.testB.testCaseId = dsCall.testA.testCaseId)
              => dsCall.statusB = Synced

\* A synced test is renamed, skipped, tagged and moved one line down, keeps
\* its case ID, and is synced still.
C30_Witness ==
    /\ VariantScanned
    /\ dsCall.statusA = Synced
    /\ dsCall.statusB = Synced
    /\ dsCall.testA.title = Title_T1
    /\ dsCall.testB.title = Title_T1_Renamed
    /\ dsCall.testB.type = "test.skip"
    /\ dsCall.testB.jsdocTags.playwrightTags = <<"@smoke">>
    /\ dsCall.testB.lineNumber = 2

=============================================================================
